---- MODULE Spec2Model ----
(***************************************************************************)
(* Model of the simulator API of pixelshootingrange: the anti-abuse gate   *)
(* (bot_protection.py) in front of the job orchestration engine            *)
(* (simulator_api.py, simulator_py/runner.py).                             *)
(***************************************************************************)
EXTENDS Integers, Sequences, FiniteSets, TLC

\* ---------------------------------------------------------------- bounds
StartTime == 1          \* value of time.time() when the process starts
MaxTicksRL == 4         \* clock advances in the rate-limiter specification
MaxCallsRL == 12        \* check_and_record calls in the rate-limiter specification
MaxTicks == 1           \* clock advances in the request specification
MaxRequests == 6        \* HTTP requests in the request specification
MaxBatch == 4           \* largest session count of the job in the batch specification
MaxCount == 52          \* largest integer 'sessions' of a request
MaxPool == 2            \* largest max_pool_size of a UserPool
MaxSaves == 4           \* save_user_state calls on a UserPool
MaxPoolTicks == 3       \* clock advances between the save_user_state calls
MaxDifficulty == 6      \* largest difficulty given to verify_solution
MaxSources == 2         \* longest list given to select_traffic_source
MaxLoops == 4           \* largest browse_loops that random.randint(1, 5) gives
MaxThreadCalls == 4     \* check_and_record calls of the request threads
MaxSessionSaves == 3    \* save_user_state calls of the sessions of a batch
MaxSessionTicks == 1    \* clock advances while the sessions of a batch run
MaxResubmit == 3        \* requests of the session after it has submitted a job

\* ---------------------------------------------------- program constants
RATE_LIMIT_HOURLY == 3
RATE_LIMIT_DAILY == 10
HOUR_SECONDS == 3600
DAY_SECONDS == 86400
CLEANUP_INTERVAL == 60
POW_DIFFICULTY == 4
POW_CHALLENGE_EXPIRY_SECONDS == 300
SESSION_MIN_AGE_SECONDS == 10
JOB_EXPIRY_SECONDS == 3600
MAX_SESSIONS_PER_JOB == 50
DEFAULT_SESSIONS == 10
MAX_CONCURRENT == 3

None == "None"        \* Python's None, where the other values are strings
NoTime == 0           \* Python's None, where the other values are timestamps
NoJobId == 0          \* Python's None, where the other values are job ids
\* Python's None, where the other values are challenges
NoChallenge == [nonce |-> None, difficulty |-> 0, created_at |-> 0, expires_at |-> 0]

IPs == {"ip1", "ip2"}
RLIPs == {"ip1"}
RLSteps == {1800, 3600, 86400}

Sessions == {"s1", "s2"}
Clients == {"s1"}             \* the sessions that send requests in Spec
ReqIPs == {"ip1"}
Tokens == {"t1", "t2"}          \* values of secrets.token_hex(32)
Nonces == {"n1", "n2"}          \* values of secrets.token_hex(16)
Solutions == {"", "a", "b"}     \* pow_solution of a request
Snippets == {"", "gtm"}         \* config.gtm_snippet of a request
Steps == {10, 3601}
JobIds == {1, 2}                \* values of uuid.uuid4()
\* the value of 'sessions' in the JSON body of a request, as the Python value
\* request.get_json gives: t is its type, v its numeric value (for a str, a
\* float, a list: the number it spells); "missing" is a body without the key
JsonInt(n) == [t |-> "int", v |-> n]
JsonValues ==
    {[t |-> "missing", v |-> 0], [t |-> "NoneType", v |-> 0], [t |-> "str", v |-> 5],
     [t |-> "float", v |-> 5], [t |-> "list", v |-> 5],
     [t |-> "bool", v |-> 0], [t |-> "bool", v |-> 1]}
        \cup {JsonInt(n) : n \in -2..MaxCount}
Counts == {JsonInt(1)}          \* 'sessions' of a request in Spec
UserIds == {"u1", "u2", "u3"}   \* values of _generate_user_id()
Handles == {"h1", "h2"}         \* the sessions of a batch that run at the same time
Threads == {"t1", "t2"}         \* the request threads of the server

VARIABLES
    now,            \* time.time()
    hourly,         \* RateLimiter._hourly : ip -> list of timestamps
    daily,          \* RateLimiter._daily  : ip -> list of timestamps
    last_cleanup,   \* RateLimiter._last_cleanup
    allowedLog,     \* history: per ip, the times at which check_and_record returned allowed
    lastCall,       \* history: the last check_and_record call and its result
    ticks,          \* number of clock advances so far
    calls,          \* number of direct calls (check_and_record, save_user_state) so far
    session,        \* the flask session of each client
    jobObj,         \* the SimulatorJob objects, by job id (None: not created)
    job_store,      \* ids of the jobs in the job_store dict
    job_stop_events,\* ids of the jobs with an entry in the job_stop_events dict
    stop_event,     \* the asyncio.Event of each job: is it set
    wpc,            \* position of each job's _run_simulator_thread
    task,           \* run_batch: position of each session task
    sem,            \* run_batch: free slots of the semaphore
    progress,       \* run_batch: the JobProgress of each job
    exc,            \* the exception that run_batch raised in each job's thread
    resp,           \* history: the last HTTP request and its response
    reqs,           \* number of HTTP requests so far
    arg,            \* the arguments of the function called on its own
    ret,            \* its result (history, for save_user_state: the users it removed)
    users,          \* UserPool._users, in the order of the dict
    max_pool_size,  \* UserPool.max_pool_size
    utcnow,         \* datetime.utcnow(), in microseconds
    events,         \* scenarios.py: the list 'events' of the running generator
    gpc,            \* scenarios.py: position of the running generator
    storage_states, \* UserPool._storage_states: the user ids that have a state
    held,           \* the User object each running session got from get_user
    saved,          \* history: per user id, the save_user_state calls made for it
    rlt             \* the request threads inside check_and_record: position, locals

rlvars == <<hourly, daily, last_cleanup, allowedLog>>
gatevars == <<session, jobObj, job_store, job_stop_events, stop_event, resp, reqs>>
workvars == <<wpc, task, sem, progress, exc>>
concvars == <<storage_states, held, saved, rlt>>
purevars == <<arg, ret, users, max_pool_size, utcnow, events, gpc, concvars>>
vars == <<now, hourly, daily, last_cleanup, allowedLog, lastCall, ticks, calls,
          session, jobObj, job_store, job_stop_events, stop_event,
          wpc, task, sem, progress, exc, resp, reqs,
          arg, ret, users, max_pool_size, utcnow, events, gpc,
          storage_states, held, saved, rlt>>

\* ----------------------------------------------------------- rate limiter
\* [t for t in times if t > cutoff]
Recent(times, cutoff) == SelectSeq(times, LAMBDA t : t > cutoff)

\* dict.get(ip, [])
GetList(d, ip) == IF ip \in DOMAIN d THEN d[ip] ELSE <<>>

\* {ip: [t ...if t > cutoff] for ip, times in d.items() if any(t > cutoff ...)}
Purged(d, cutoff) ==
    [ip \in {i \in DOMAIN d : Len(Recent(d[i], cutoff)) > 0} |-> Recent(d[ip], cutoff)]

\* _cleanup with an interval of ten minutes for one minute
CleanupDue_TenMinutes(t) == ~(t - last_cleanup < 600)

\* RateLimiter._cleanup: is the full cleanup due at time t
CleanupDue(t) == ~(t - last_cleanup < CLEANUP_INTERVAL)

CleanedHourly(t) == IF CleanupDue(t) THEN Purged(hourly, t - HOUR_SECONDS) ELSE hourly
CleanedDaily(t) == IF CleanupDue(t) THEN Purged(daily, t - DAY_SECONDS) ELSE daily
CleanedStamp(t) == IF CleanupDue(t) THEN t ELSE last_cleanup

\* the hourly test with > for >=
HourlyFull_OffByOne(h, ip, t) ==
    Len(Recent(GetList(h, ip), t - HOUR_SECONDS)) > RATE_LIMIT_HOURLY

\* the two limit tests of check_and_record, on the dicts left by _cleanup
HourlyFull(h, ip, t) == Len(Recent(GetList(h, ip), t - HOUR_SECONDS)) >= RATE_LIMIT_HOURLY
DailyFull(d, ip, t) == Len(Recent(GetList(d, ip), t - DAY_SECONDS)) >= RATE_LIMIT_DAILY

RateAllowed(ip, t) ==
    /\ ~HourlyFull(CleanedHourly(t), ip, t)
    /\ ~DailyFull(CleanedDaily(t), ip, t)

\* self._hourly[ip].append(now), creating the list when the ip is absent
Recorded(d, ip, t) ==
    [i \in DOMAIN d \cup {ip} |-> IF i = ip THEN Append(GetList(d, ip), t) ELSE d[i]]

\* RateLimiter.check_and_record(ip) at time now: the state change
RateLimiterStep(ip) ==
    /\ last_cleanup' = CleanedStamp(now)
    /\ IF RateAllowed(ip, now)
       THEN /\ hourly' = Recorded(CleanedHourly(now), ip, now)
            /\ daily' = Recorded(CleanedDaily(now), ip, now)
            /\ allowedLog' = [allowedLog EXCEPT ![ip] = Append(@, now)]
       ELSE /\ hourly' = CleanedHourly(now)
            /\ daily' = CleanedDaily(now)
            /\ UNCHANGED allowedLog

\* ---------------------------------------------------------- proof of work
\* number of leading "0" characters of hashlib.sha256(input).hexdigest(); the
\* digest is a fixed function of its input, given here by a table
LeadingZeros(input) ==
    CASE input = "n1a" -> 4
      [] input = "n1b" -> 3
      [] input = "n2a" -> 0
      [] input = "n2b" -> 5
      [] OTHER -> 1

Sha256Hex(input) ==
    LET z == LeadingZeros(input)
    IN  [i \in 1..64 |-> IF i <= z THEN "0" ELSE "f"]

\* str.startswith
StartsWith(str, prefix) ==
    /\ Len(prefix) <= Len(str)
    /\ SubSeq(str, 1, Len(prefix)) = prefix

\* verify_solution without "if not nonce or not solution: return False"
VerifySolution_NoGuard(nonce, solution, difficulty) ==
    StartsWith(Sha256Hex(nonce \o solution), [i \in 1..difficulty |-> "0"])

\* ProofOfWork.verify_solution
VerifySolution(nonce, solution, difficulty) ==
    IF nonce = "" \/ solution = ""
    THEN FALSE
    ELSE StartsWith(Sha256Hex(nonce \o solution), [i \in 1..difficulty |-> "0"])

\* ProofOfWork.generate_challenge at time t with the random nonce
GenerateChallenge(nonce, t) ==
    [nonce |-> nonce, difficulty |-> POW_DIFFICULTY, created_at |-> t,
     expires_at |-> t + POW_CHALLENGE_EXPIRY_SECONDS]

\* ProofOfWork.is_challenge_valid
IsChallengeValid(challenge, t) ==
    IF challenge = NoChallenge THEN FALSE ELSE t < challenge.expires_at

\* ------------------------------------------------------------------ CSRF
\* CSRFProtection.validate_token: the result
ValidateToken(sess, token) ==
    IF token = "" THEN FALSE
    ELSE IF sess.csrf_token = None THEN FALSE
    ELSE IF token # sess.csrf_token THEN FALSE
    ELSE TRUE

\* validate_token without the two session.pop calls
TokenConsumed_NoPop(sess, token) == sess

\* validate_token with the two session.pop calls ahead of the comparison
TokenConsumed_PopFirst(sess, token) ==
    IF token = "" \/ sess.csrf_token = None
    THEN sess
    ELSE [sess EXCEPT !.csrf_token = None, !.csrf_created = NoTime]

\* CSRFProtection.validate_token: the session it leaves
TokenConsumed(sess, token) ==
    IF ValidateToken(sess, token)
    THEN [sess EXCEPT !.csrf_token = None, !.csrf_created = NoTime]
    ELSE sess

\* ------------------------------------------------- the other gate checks
\* check_session_age with <= for <
CheckSessionAge_Strict(sess, t) ==
    IF sess.session_created = NoTime THEN FALSE
    ELSE IF t - sess.session_created <= SESSION_MIN_AGE_SECONDS THEN FALSE
    ELSE TRUE

\* check_session_age letting a session through at its first check
CheckSessionAge_NewPasses(sess, t) ==
    IF sess.session_created = NoTime THEN TRUE
    ELSE IF t - sess.session_created < SESSION_MIN_AGE_SECONDS THEN FALSE
    ELSE TRUE

\* check_session_age: the result
CheckSessionAge(sess, t) ==
    IF sess.session_created = NoTime THEN FALSE
    ELSE IF t - sess.session_created < SESSION_MIN_AGE_SECONDS THEN FALSE
    ELSE TRUE

\* check_session_age: the session it leaves
SessionAgeRecorded(sess, t) ==
    IF sess.session_created = NoTime
    THEN [sess EXCEPT !.session_created = t]
    ELSE sess

\* check_snippets_configured
CheckSnippetsConfigured(gtm_snippet) == gtm_snippet # ""

\* check_no_running_job: "ok" (True, None), "reject" (False, message) or
\* "raise".  job_store holds SimulatorJob dataclass instances, which have no
\* get method, so job.get('status') raises AttributeError whenever the
\* session's job id is in job_store; the comparison with 'running' is never
\* reached.
CheckNoRunningJob(sess) ==
    IF sess.simulator_job_id # NoJobId /\ sess.simulator_job_id \in job_store
    THEN "raise"
    ELSE "ok"

\* ------------------------------------------------ require_bot_protection
\* the check at which wrapped() returns, or "pass" when it calls f
GateStage(s, ip, tok, sol, gtm) ==
    LET sess == session[s]
        ch == sess.pow_challenge
    IN  IF ~RateAllowed(ip, now) THEN "rate"
        ELSE IF ~ValidateToken(sess, tok) THEN "csrf"
        ELSE IF ~IsChallengeValid(ch, now) THEN "pow_expired"
        ELSE IF ~VerifySolution(ch.nonce, sol, ch.difficulty) THEN "pow_invalid"
        ELSE IF ~CheckSessionAge(sess, now) THEN "session_age"
        ELSE IF ~CheckSnippetsConfigured(gtm) THEN "snippets"
        ELSE IF CheckNoRunningJob(sess) = "reject" THEN "duplicate"
        ELSE IF CheckNoRunningJob(sess) = "raise" THEN "error"
        ELSE "pass"

\* the status code of the response wrapped() returns at each stage; an
\* exception that leaves the view is answered by flask with 500
GateCode(stage) ==
    CASE stage = "rate" -> 429
      [] stage = "csrf" -> 403
      [] stage = "pow_expired" -> 400
      [] stage = "pow_invalid" -> 400
      [] stage = "session_age" -> 400
      [] stage = "snippets" -> 400
      [] stage = "duplicate" -> 409
      [] stage = "error" -> 500
      [] stage = "pass" -> 202

\* wrapped() without session.pop('_pow_challenge')
GateSession_KeepChallenge(sess, tok, stage) ==
    LET validated == TokenConsumed(sess, tok)
    IN  IF stage = "rate" THEN sess
        ELSE IF stage \in {"csrf", "pow_expired", "pow_invalid"} THEN validated
        ELSE SessionAgeRecorded(validated, now)

\* wrapped() consuming the CSRF token only when every check has passed
GateSession_TokenLast(sess, tok, stage) ==
    LET validated == TokenConsumed(sess, tok)
        popped == [sess EXCEPT !.pow_challenge = NoChallenge]
    IN  IF stage \in {"rate", "csrf", "pow_expired", "pow_invalid"} THEN sess
        ELSE IF stage = "pass"
        THEN SessionAgeRecorded([validated EXCEPT !.pow_challenge = NoChallenge], now)
        ELSE SessionAgeRecorded(popped, now)

\* wrapped() with validate_token ahead of rate_limiter.check_and_record
GateSession_ValidatesFirst(sess, tok, stage) ==
    LET validated == TokenConsumed(sess, tok)
        popped == [validated EXCEPT !.pow_challenge = NoChallenge]
    IN  IF stage \in {"rate", "csrf", "pow_expired", "pow_invalid"} THEN validated
        ELSE SessionAgeRecorded(popped, now)

\* the session after wrapped() has run up to the stage: validate_token has
\* run unless the rate limiter rejected, the challenge is popped once the
\* solution is verified, and check_session_age runs after that
GateSession(sess, tok, stage) ==
    LET validated == TokenConsumed(sess, tok)
        popped == [validated EXCEPT !.pow_challenge = NoChallenge]
    IN  IF stage = "rate" THEN sess
        ELSE IF stage \in {"csrf", "pow_expired", "pow_invalid"} THEN validated
        ELSE SessionAgeRecorded(popped, now)

\* ------------------------------------------------------ simulator_api.py
NoJob == [status |-> None]

\* SimulatorJob(job_id, status='pending', total) created at time t
NewJob(total, t) ==
    [status |-> "pending", total |-> total, completed |-> 0, successful |-> 0,
     failed |-> 0, started_at |-> t, finished_at |-> NoTime, error |-> None,
     stop_requested |-> FALSE]

\* _cleanup_old_jobs sparing the jobs that are pending or running
Expired_FinishedOnly(t) ==
    {j \in job_store : /\ t - jobObj[j].started_at > JOB_EXPIRY_SECONDS
                       /\ jobObj[j].status \notin {"pending", "running"}}

\* _cleanup_old_jobs: the job ids it deletes
Expired(t) == {j \in job_store : t - jobObj[j].started_at > JOB_EXPIRY_SECONDS}

\* json_data.get('sessions', DEFAULT_SESSIONS)
JsonGet(x) == IF x.t = "missing" THEN JsonInt(DEFAULT_SESSIONS) ELSE x

\* isinstance(x, int): bool is a subclass of int
IsInstanceInt(x) == x.t \in {"int", "bool"}

\* start_simulator with num_sessions < 0 for num_sessions < 1
ClampSessions_ZeroKept(x) ==
    LET got == JsonGet(x)
        d == IF ~IsInstanceInt(got) \/ got.v < 0 THEN DEFAULT_SESSIONS ELSE got.v
    IN  IF d > MAX_SESSIONS_PER_JOB THEN MAX_SESSIONS_PER_JOB ELSE d

\* start_simulator: the session count of the job for the 'sessions' value x of
\* the request, as a number (True counts as 1)
ClampSessions(x) ==
    LET got == JsonGet(x)
        d == IF ~IsInstanceInt(got) \/ got.v < 1 THEN DEFAULT_SESSIONS ELSE got.v
    IN  IF d > MAX_SESSIONS_PER_JOB THEN MAX_SESSIONS_PER_JOB ELSE d

\* uuid.uuid4(): an id no job has had
FreshIds == {j \in JobIds : jobObj[j] = NoJob}
FreshId == CHOOSE j \in FreshIds : \A k \in FreshIds : j <= k

NoProgress == [completed |-> 0, successful |-> 0, failed |-> 0]

\* GET /challenge
GetChallenge(s, nonce, tok) ==
    /\ reqs < MaxRequests
    /\ reqs' = reqs + 1
    /\ session' = [session EXCEPT ![s].pow_challenge = GenerateChallenge(nonce, now),
                                  ![s].csrf_token = tok,
                                  ![s].csrf_created = now]
    /\ resp' = [op |-> "challenge", sid |-> s, code |-> 200, stage |-> None,
                tok |-> tok, job |-> NoJobId]
    /\ UNCHANGED <<now, rlvars, lastCall, purevars, ticks, calls, jobObj, job_store,
                   job_stop_events, stop_event, workvars>>

\* POST /start with the job created ahead of check_no_running_job
StartSimulator_JobBeforeGuard(s, ip, tok, sol, gtm, n) ==
    LET stage == GateStage(s, ip, tok, sol, gtm)
        j == FreshId
        total == ClampSessions(n)
    IN  /\ reqs < MaxRequests
        /\ reqs' = reqs + 1
        /\ stage \in {"pass", "error"} => FreshIds # {}
        /\ RateLimiterStep(ip)
        /\ IF stage \in {"pass", "error"}
           THEN /\ session' = [session EXCEPT
                        ![s] = [GateSession(@, tok, stage) EXCEPT !.simulator_job_id = j]]
                /\ jobObj' = [jobObj EXCEPT ![j] = NewJob(total, now)]
                /\ job_store' = (job_store \ Expired(now)) \cup {j}
                /\ job_stop_events' = (job_stop_events \ Expired(now)) \cup {j}
                /\ stop_event' = [stop_event EXCEPT ![j] = FALSE]
                /\ wpc' = [wpc EXCEPT ![j] = "start"]
           ELSE /\ session' = [session EXCEPT ![s] = GateSession(@, tok, stage)]
                /\ UNCHANGED <<jobObj, job_store, job_stop_events, stop_event, wpc>>
        /\ resp' = [op |-> "start", sid |-> s, code |-> GateCode(stage), stage |-> stage,
                    tok |-> tok, job |-> IF stage = "pass" THEN j ELSE NoJobId]
        /\ UNCHANGED <<now, lastCall, purevars, ticks, calls, task, sem, progress, exc>>

\* POST /start: require_bot_protection.wrapped, then start_simulator
StartSimulator(s, ip, tok, sol, gtm, n) ==
    LET stage == GateStage(s, ip, tok, sol, gtm)
        j == FreshId
        total == ClampSessions(n)
    IN  /\ reqs < MaxRequests
        /\ reqs' = reqs + 1
        /\ stage = "pass" => FreshIds # {}
        /\ RateLimiterStep(ip)
        /\ IF stage = "pass"
           THEN /\ session' = [session EXCEPT
                        ![s] = [GateSession(@, tok, stage) EXCEPT !.simulator_job_id = j]]
                /\ jobObj' = [jobObj EXCEPT ![j] = NewJob(total, now)]
                /\ job_store' = (job_store \ Expired(now)) \cup {j}
                /\ job_stop_events' = (job_stop_events \ Expired(now)) \cup {j}
                /\ stop_event' = [stop_event EXCEPT ![j] = FALSE]
                /\ wpc' = [wpc EXCEPT ![j] = "start"]
           ELSE /\ session' = [session EXCEPT ![s] = GateSession(@, tok, stage)]
                /\ UNCHANGED <<jobObj, job_store, job_stop_events, stop_event, wpc>>
        /\ resp' = [op |-> "start", sid |-> s, code |-> GateCode(stage), stage |-> stage,
                    tok |-> tok, job |-> IF stage = "pass" THEN j ELSE NoJobId]
        /\ UNCHANGED <<now, lastCall, purevars, ticks, calls, task, sem, progress, exc>>

\* get_status without the call of _cleanup_old_jobs
GetStatus_NoSweep(s, j) ==
    /\ reqs < MaxRequests
    /\ reqs' = reqs + 1
    /\ resp' = [op |-> "status", sid |-> s,
                code |-> IF j \in job_store THEN 200 ELSE 404,
                stage |-> None, tok |-> None, job |-> j]
    /\ UNCHANGED <<now, rlvars, lastCall, purevars, ticks, calls, session, jobObj, job_store,
                   job_stop_events, stop_event, workvars>>

\* GET /status/<job_id>
GetStatus(s, j) ==
    /\ reqs < MaxRequests
    /\ reqs' = reqs + 1
    /\ job_store' = job_store \ Expired(now)
    /\ job_stop_events' = job_stop_events \ Expired(now)
    /\ resp' = [op |-> "status", sid |-> s,
                code |-> IF j \in job_store \ Expired(now) THEN 200 ELSE 404,
                stage |-> None, tok |-> None, job |-> j]
    /\ UNCHANGED <<now, rlvars, lastCall, purevars, ticks, calls, session, jobObj, stop_event,
                   workvars>>

\* stop_simulator without the comparison with session['_simulator_job_id']
StopCode_AnySession(s, j) ==
    IF j \notin job_store THEN 404
    ELSE IF jobObj[j].status \notin {"pending", "running"} THEN 400
    ELSE 200

\* the status code of POST /stop/<job_id>
StopCode(s, j) ==
    IF j \notin job_store THEN 404
    ELSE IF jobObj[j].status \notin {"pending", "running"} THEN 400
    ELSE IF session[s].simulator_job_id # j THEN 403
    ELSE 200

\* stop_simulator writing job.status itself instead of leaving it to the worker
StopSimulator_SetsStatus(s, j) ==
    /\ reqs < MaxRequests
    /\ reqs' = reqs + 1
    /\ IF StopCode(s, j) = 200
       THEN /\ jobObj' = [jobObj EXCEPT ![j].stop_requested = TRUE,
                                        ![j].status = "stopped"]
            /\ stop_event' = [stop_event EXCEPT
                                ![j] = IF j \in job_stop_events THEN TRUE ELSE @]
       ELSE UNCHANGED <<jobObj, stop_event>>
    /\ resp' = [op |-> "stop", sid |-> s, code |-> StopCode(s, j), stage |-> None,
                tok |-> None, job |-> j]
    /\ UNCHANGED <<now, rlvars, lastCall, purevars, ticks, calls, session, job_store,
                   job_stop_events, workvars>>

\* stop_simulator without "stop_event.set()": only job.stop_requested is set
StopSimulator_FlagOnly(s, j) ==
    /\ reqs < MaxRequests
    /\ reqs' = reqs + 1
    /\ IF StopCode(s, j) = 200
       THEN jobObj' = [jobObj EXCEPT ![j].stop_requested = TRUE]
       ELSE UNCHANGED jobObj
    /\ resp' = [op |-> "stop", sid |-> s, code |-> StopCode(s, j), stage |-> None,
                tok |-> None, job |-> j]
    /\ UNCHANGED <<now, rlvars, lastCall, purevars, ticks, calls, session, job_store,
                   job_stop_events, stop_event, workvars>>

\* POST /stop/<job_id>
StopSimulator(s, j) ==
    /\ reqs < MaxRequests
    /\ reqs' = reqs + 1
    /\ IF StopCode(s, j) = 200
       THEN /\ jobObj' = [jobObj EXCEPT ![j].stop_requested = TRUE]
            /\ stop_event' = [stop_event EXCEPT
                                ![j] = IF j \in job_stop_events THEN TRUE ELSE @]
       ELSE UNCHANGED <<jobObj, stop_event>>
    /\ resp' = [op |-> "stop", sid |-> s, code |-> StopCode(s, j), stage |-> None,
                tok |-> None, job |-> j]
    /\ UNCHANGED <<now, rlvars, lastCall, purevars, ticks, calls, session, job_store,
                   job_stop_events, workvars>>

\* ------------------------------------ _run_simulator_thread and run_batch
\* _run_simulator_thread: job_store.get(job_id), then job.status = 'running'
WorkerBegin(j) ==
    /\ wpc[j] = "start"
    /\ IF j \in job_store
       THEN /\ jobObj' = [jobObj EXCEPT ![j].status = "running"]
            /\ wpc' = [wpc EXCEPT ![j] = "launch"]
       ELSE /\ wpc' = [wpc EXCEPT ![j] = "done"]
            /\ UNCHANGED jobObj
    /\ UNCHANGED <<now, rlvars, lastCall, purevars, ticks, calls, session, job_store,
                   job_stop_events, stop_event, task, sem, progress, exc, resp, reqs>>

\* run_batch up to the launch loop: the browser starts (ok) or
\* p.chromium.launch raises
BrowserLaunch(j, ok) ==
    /\ wpc[j] = "launch"
    /\ IF ok
       THEN /\ wpc' = [wpc EXCEPT ![j] = "spawn"]
            /\ sem' = [sem EXCEPT ![j] = MAX_CONCURRENT]
            /\ UNCHANGED exc
       ELSE /\ wpc' = [wpc EXCEPT ![j] = "except"]
            /\ exc' = [exc EXCEPT ![j] = "launch failed"]
            /\ UNCHANGED sem
    /\ UNCHANGED <<now, rlvars, lastCall, purevars, ticks, calls, gatevars, task, progress>>

\* one iteration of "for i in range(num_sessions)": break on the stop signal,
\* else create the next task; the loop ends after num_sessions tasks
SpawnTask(j) ==
    /\ wpc[j] = "spawn"
    /\ IF Len(task[j]) >= jobObj[j].total \/ stop_event[j]
       THEN /\ wpc' = [wpc EXCEPT ![j] = "gather"]
            /\ UNCHANGED task
       ELSE /\ task' = [task EXCEPT ![j] = Append(@, "new")]
            /\ UNCHANGED wpc
    /\ UNCHANGED <<now, rlvars, lastCall, purevars, ticks, calls, gatevars, sem, progress, exc>>

\* _run_session_with_semaphore without "async with semaphore": a task starts
\* run_session whatever the number of free slots
TaskStep_NoSemaphore(j, k) ==
    /\ wpc[j] = "gather"
    /\ k \in 1..Len(task[j])
    /\ task[j][k] = "new"
    /\ IF stop_event[j]
       THEN /\ task' = [task EXCEPT ![j][k] = "skipped"]
            /\ UNCHANGED sem
       ELSE /\ task' = [task EXCEPT ![j][k] = "running"]
            /\ sem' = [sem EXCEPT ![j] = @ - 1]
    /\ UNCHANGED <<now, rlvars, lastCall, purevars, ticks, calls, gatevars, wpc, progress, exc>>

\* the event loop runs a task of _run_session_with_semaphore that has not
\* started run_session yet.  A new task returns None on the stop signal,
\* waits when the semaphore has no free slot and otherwise takes a slot; a
\* task with a slot (taken at once, or after waiting) checks the stop signal
\* again and either gives the slot back and returns None or starts run_session.
TaskStep(j, k) ==
    /\ wpc[j] = "gather"
    /\ k \in 1..Len(task[j])
    /\ \/ task[j][k] = "new"
       \/ task[j][k] = "waiting" /\ sem[j] > 0
    /\ IF stop_event[j]
       THEN /\ task' = [task EXCEPT ![j][k] = "skipped"]
            /\ UNCHANGED sem
       ELSE IF sem[j] > 0
       THEN /\ task' = [task EXCEPT ![j][k] = "running"]
            /\ sem' = [sem EXCEPT ![j] = @ - 1]
       ELSE /\ task' = [task EXCEPT ![j][k] = "waiting"]
            /\ UNCHANGED sem
    /\ UNCHANGED <<now, rlvars, lastCall, purevars, ticks, calls, gatevars, wpc, progress, exc>>

\* the counting with "progress.completed += 1" inside the success branch
Counted_SuccessOnly(p, success) ==
    [completed |-> IF success THEN p.completed + 1 ELSE p.completed,
     successful |-> IF success THEN p.successful + 1 ELSE p.successful,
     failed |-> IF success THEN p.failed ELSE p.failed + 1]

\* progress.completed += 1, then successful or failed += 1
Counted(p, success) ==
    [completed |-> p.completed + 1,
     successful |-> IF success THEN p.successful + 1 ELSE p.successful,
     failed |-> IF success THEN p.failed ELSE p.failed + 1]

\* on_progress(progress) of _run_simulator_thread
OnProgress(job, p) ==
    [job EXCEPT !.completed = p.completed, !.successful = p.successful,
                !.failed = p.failed]

\* run_session without its "except Exception": the error of a session leaves
\* the task, uncounted, and run_batch raises it
TaskFinish_Raises(j, k, success) ==
    /\ wpc[j] = "gather"
    /\ k \in 1..Len(task[j])
    /\ task[j][k] = "running"
    /\ task' = [task EXCEPT ![j][k] = "done"]
    /\ sem' = [sem EXCEPT ![j] = @ + 1]
    /\ IF success
       THEN /\ progress' = [progress EXCEPT ![j] = Counted(@, success)]
            /\ jobObj' = [jobObj EXCEPT ![j] = OnProgress(@, Counted(progress[j], success))]
            /\ UNCHANGED <<wpc, exc>>
       ELSE /\ wpc' = [wpc EXCEPT ![j] = "except"]
            /\ exc' = [exc EXCEPT ![j] = "session failed"]
            /\ UNCHANGED <<progress, jobObj>>
    /\ UNCHANGED <<now, rlvars, lastCall, purevars, ticks, calls, session, job_store,
                   job_stop_events, stop_event, resp, reqs>>

\* the task keeping its slot of the semaphore when run_session has returned
TaskFinish_KeepsSlot(j, k, success) ==
    /\ wpc[j] = "gather"
    /\ k \in 1..Len(task[j])
    /\ task[j][k] = "running"
    /\ task' = [task EXCEPT ![j][k] = "done"]
    /\ progress' = [progress EXCEPT ![j] = Counted(@, success)]
    /\ jobObj' = [jobObj EXCEPT ![j] = OnProgress(@, Counted(progress[j], success))]
    /\ UNCHANGED <<now, rlvars, lastCall, purevars, ticks, calls, session, job_store,
                   job_stop_events, stop_event, wpc, sem, exc, resp, reqs>>

\* run_session returns (success: its result's 'success'); the task counts it,
\* reports the progress and leaves the semaphore
TaskFinish(j, k, success) ==
    /\ wpc[j] = "gather"
    /\ k \in 1..Len(task[j])
    /\ task[j][k] = "running"
    /\ task' = [task EXCEPT ![j][k] = "done"]
    /\ progress' = [progress EXCEPT ![j] = Counted(@, success)]
    /\ jobObj' = [jobObj EXCEPT ![j] = OnProgress(@, Counted(progress[j], success))]
    /\ sem' = [sem EXCEPT ![j] = @ + 1]
    /\ UNCHANGED <<now, rlvars, lastCall, purevars, ticks, calls, session, job_store,
                   job_stop_events, stop_event, wpc, exc, resp, reqs>>

\* asyncio.gather returns once every task has returned; then browser.close()
\* runs (ok) or raises
GatherDone(j, ok) ==
    /\ wpc[j] = "gather"
    /\ \A k \in 1..Len(task[j]) : task[j][k] \in {"done", "skipped"}
    /\ IF ok
       THEN /\ wpc' = [wpc EXCEPT ![j] = "result"]
            /\ UNCHANGED exc
       ELSE /\ wpc' = [wpc EXCEPT ![j] = "except"]
            /\ exc' = [exc EXCEPT ![j] = "close failed"]
    /\ UNCHANGED <<now, rlvars, lastCall, purevars, ticks, calls, gatevars, task, sem, progress>>

\* the job after run_batch has returned its JobResult: total_sessions is
\* progress.total, the requested number of sessions
JobResolved(job, p) ==
    [job EXCEPT !.completed = job.total,
                !.successful = p.successful,
                !.failed = p.failed]

\* _run_simulator_thread taking the "completed" branch whatever
\* job.stop_requested is
WorkerResult_IgnoresStop(j) ==
    /\ wpc[j] = "result"
    /\ jobObj' = [jobObj EXCEPT ![j] = JobResolved(@, progress[j])]
    /\ wpc' = [wpc EXCEPT ![j] = "set_completed"]
    /\ UNCHANGED <<now, rlvars, lastCall, purevars, ticks, calls, session, job_store,
                   job_stop_events, stop_event, task, sem, progress, exc, resp, reqs>>

\* _run_simulator_thread after run_until_complete has returned: the three
\* counters are assigned and job.stop_requested is read.  The request threads
\* run concurrently with this thread, so the status is written in a later step.
WorkerResult(j) ==
    /\ wpc[j] = "result"
    /\ jobObj' = [jobObj EXCEPT ![j] = JobResolved(@, progress[j])]
    /\ wpc' = [wpc EXCEPT ![j] = IF jobObj[j].stop_requested THEN "set_stopped"
                                                             ELSE "set_completed"]
    /\ UNCHANGED <<now, rlvars, lastCall, purevars, ticks, calls, session, job_store,
                   job_stop_events, stop_event, task, sem, progress, exc, resp, reqs>>

\* job.status = 'stopped' or job.status = 'completed', by the branch taken
WorkerStatus(j) ==
    /\ wpc[j] \in {"set_stopped", "set_completed"}
    /\ jobObj' = [jobObj EXCEPT ![j].status = IF wpc[j] = "set_stopped" THEN "stopped"
                                                                      ELSE "completed"]
    /\ wpc' = [wpc EXCEPT ![j] = "finally"]
    /\ UNCHANGED <<now, rlvars, lastCall, purevars, ticks, calls, session, job_store,
                   job_stop_events, stop_event, task, sem, progress, exc, resp, reqs>>

\* the except branch setting the three counters of the job back to 0
WorkerExcept_ResetsCounts(j) ==
    /\ wpc[j] = "except"
    /\ jobObj' = [jobObj EXCEPT ![j].status = "failed", ![j].error = exc[j],
                                ![j].completed = 0, ![j].successful = 0, ![j].failed = 0]
    /\ wpc' = [wpc EXCEPT ![j] = "finally"]
    /\ UNCHANGED <<now, rlvars, lastCall, purevars, ticks, calls, session, job_store,
                   job_stop_events, stop_event, task, sem, progress, exc, resp, reqs>>

\* _run_simulator_thread: except Exception
WorkerExcept(j) ==
    /\ wpc[j] = "except"
    /\ jobObj' = [jobObj EXCEPT ![j].status = "failed", ![j].error = exc[j]]
    /\ wpc' = [wpc EXCEPT ![j] = "finally"]
    /\ UNCHANGED <<now, rlvars, lastCall, purevars, ticks, calls, session, job_store,
                   job_stop_events, stop_event, task, sem, progress, exc, resp, reqs>>

\* _run_simulator_thread: the outer finally
WorkerFinally(j) ==
    /\ wpc[j] = "finally"
    /\ jobObj' = [jobObj EXCEPT ![j].finished_at = now]
    /\ job_stop_events' = job_stop_events \ {j}
    /\ wpc' = [wpc EXCEPT ![j] = "done"]
    /\ UNCHANGED <<now, rlvars, lastCall, purevars, ticks, calls, session, job_store,
                   stop_event, task, sem, progress, exc, resp, reqs>>

\* the clock advances
Tick(d) ==
    /\ ticks < MaxTicks
    /\ ticks' = ticks + 1
    /\ now' = now + d
    /\ UNCHANGED <<rlvars, lastCall, purevars, calls, gatevars, workvars>>

\* --------------------------------------------------------- specifications
NoSession ==
    [csrf_token |-> None, csrf_created |-> NoTime, pow_challenge |-> NoChallenge,
     session_created |-> NoTime, simulator_job_id |-> NoJobId]

\* no function has been called on its own, no UserPool and no generator exist
NoCall == [fn |-> None]
\* no generator of scenarios.py is running
NoGen == [scenario |-> None, at |-> "none", loops |-> 0, i |-> 0]

\* a session that holds no User object
NoUser == [id |-> None, session_count |-> 0, is_new |-> FALSE]
\* a request thread outside check_and_record
NoLocals == [pc |-> "idle", ip |-> None, now |-> 0, built |-> <<>>]

\* no session of a batch runs and no thread is inside check_and_record
ConcIdle ==
    /\ storage_states = {}
    /\ held = [h \in Handles |-> NoUser]
    /\ saved = [id \in UserIds |-> 0]
    /\ rlt = [t \in Threads |-> NoLocals]

PureIdle ==
    /\ arg = NoCall
    /\ ret = NoCall
    /\ users = <<>>
    /\ max_pool_size = 0
    /\ utcnow = 0
    /\ events = <<>>
    /\ gpc = NoGen
    /\ ConcIdle

\* the service right after the process has started
ServiceIdle ==
    /\ now = StartTime
    /\ hourly = <<>>
    /\ daily = <<>>
    /\ last_cleanup = StartTime
    /\ allowedLog = [ip \in IPs |-> <<>>]
    /\ lastCall = [ip |-> None, at |-> 0, allowed |-> FALSE]
    /\ ticks = 0
    /\ calls = 0
    /\ session = [s \in Sessions |-> NoSession]
    /\ jobObj = [j \in JobIds |-> NoJob]
    /\ job_store = {}
    /\ job_stop_events = {}
    /\ stop_event = [j \in JobIds |-> FALSE]
    /\ wpc = [j \in JobIds |-> "none"]
    /\ task = [j \in JobIds |-> <<>>]
    /\ sem = [j \in JobIds |-> 0]
    /\ progress = [j \in JobIds |-> NoProgress]
    /\ exc = [j \in JobIds |-> None]
    /\ resp = [op |-> None, sid |-> None, code |-> 0, stage |-> None, tok |-> None,
               job |-> NoJobId]
    /\ reqs = 0

Init == PureIdle /\ ServiceIdle

\* the whole service, with one client
Next ==
    \/ \E s \in Clients, nonce \in Nonces, tok \in Tokens : GetChallenge(s, nonce, tok)
    \/ \E s \in Clients, ip \in ReqIPs, tok \in Tokens \cup {""}, sol \in Solutions,
          gtm \in Snippets, n \in Counts : StartSimulator(s, ip, tok, sol, gtm, n)
    \/ \E s \in Clients, j \in JobIds : GetStatus(s, j)
    \/ \E s \in Clients, j \in JobIds : StopSimulator(s, j)
    \/ \E j \in JobIds : WorkerBegin(j)
    \/ \E j \in JobIds, ok \in BOOLEAN : BrowserLaunch(j, ok)
    \/ \E j \in JobIds : SpawnTask(j)
    \/ \E j \in JobIds : \E k \in 1..Len(task[j]) : TaskStep(j, k)
    \/ \E j \in JobIds : \E k \in 1..Len(task[j]), success \in BOOLEAN : TaskFinish(j, k, success)
    \/ \E j \in JobIds, ok \in BOOLEAN : GatherDone(j, ok)
    \/ \E j \in JobIds : WorkerResult(j)
    \/ \E j \in JobIds : WorkerStatus(j)
    \/ \E j \in JobIds : WorkerExcept(j)
    \/ \E j \in JobIds : WorkerFinally(j)
    \/ \E d \in Steps : Tick(d)

Spec == Init /\ [][Next]_vars

\* the request handlers alone: jobs are submitted, their threads do not run
NextGate ==
    \/ \E s \in Clients, nonce \in Nonces, tok \in Tokens : GetChallenge(s, nonce, tok)
    \/ \E s \in Clients, ip \in ReqIPs, tok \in Tokens \cup {""}, sol \in Solutions,
          gtm \in Snippets, n \in Counts : StartSimulator(s, ip, tok, sol, gtm, n)
    \/ \E s \in Clients, j \in JobIds : GetStatus(s, j)
    \/ \E s \in Clients, j \in JobIds : StopSimulator(s, j)
    \/ \E d \in Steps : Tick(d)

SpecGate == Init /\ [][NextGate]_vars

\* The state of the program right after client s1 has submitted its first
\* job: GET /challenge and POST /start at StartTime (rejected, session too
\* new), ten seconds later GET /challenge and POST /start again (202).
SubmittedCounting(total, counted) ==
    /\ PureIdle
    /\ now = StartTime + 10
    /\ hourly = [ip \in {"ip1"} |-> <<StartTime, StartTime + 10>>]
    /\ daily = [ip \in {"ip1"} |-> <<StartTime, StartTime + 10>>]
    /\ last_cleanup = StartTime
    /\ allowedLog = [ip \in IPs |-> IF ip = "ip1" THEN <<StartTime, StartTime + 10>> ELSE <<>>]
    /\ lastCall = [ip |-> None, at |-> 0, allowed |-> FALSE]
    /\ calls = 0
    /\ session = [s \in Sessions |->
                    IF s = "s1"
                    THEN [NoSession EXCEPT !.session_created = StartTime,
                                           !.simulator_job_id = 1]
                    ELSE NoSession]
    /\ jobObj = [j \in JobIds |-> IF j = 1 THEN NewJob(total, StartTime + 10) ELSE NoJob]
    /\ job_store = {1}
    /\ job_stop_events = {1}
    /\ stop_event = [j \in JobIds |-> FALSE]
    /\ wpc = [j \in JobIds |-> IF j = 1 THEN "start" ELSE "none"]
    /\ task = [j \in JobIds |-> <<>>]
    /\ sem = [j \in JobIds |-> 0]
    /\ progress = [j \in JobIds |-> NoProgress]
    /\ exc = [j \in JobIds |-> None]
    /\ resp = [op |-> "start", sid |-> "s1", code |-> 202, stage |-> "pass",
               tok |-> "t1", job |-> 1]
    /\ reqs = counted

\* the four requests of the submission count as requests of the specification
Submitted(total) == SubmittedCounting(total, 4)

\* the clock may advance MaxTicks times after the submission
InitBatch ==
    /\ \E total \in 1..MaxBatch : Submitted(total)
    /\ ticks = 0

\* one submitted job: its worker thread, and the status and stop requests of
\* the owner and of another client
NextBatch ==
    \/ \E s \in Sessions, j \in JobIds : GetStatus(s, j)
    \/ \E s \in Sessions, j \in JobIds : StopSimulator(s, j)
    \/ \E j \in JobIds : WorkerBegin(j)
    \/ \E j \in JobIds, ok \in BOOLEAN : BrowserLaunch(j, ok)
    \/ \E j \in JobIds : SpawnTask(j)
    \/ \E j \in JobIds : \E k \in 1..Len(task[j]) : TaskStep(j, k)
    \/ \E j \in JobIds : \E k \in 1..Len(task[j]), success \in BOOLEAN : TaskFinish(j, k, success)
    \/ \E j \in JobIds, ok \in BOOLEAN : GatherDone(j, ok)
    \/ \E j \in JobIds : WorkerResult(j)
    \/ \E j \in JobIds : WorkerStatus(j)
    \/ \E j \in JobIds : WorkerExcept(j)
    \/ \E j \in JobIds : WorkerFinally(j)
    \/ \E d \in Steps : Tick(d)

SpecBatch == InitBatch /\ [][NextBatch]_vars

\* the job's thread is a running thread and its event loop runs every task
\* that can run: no step of the worker stays enabled for ever without being
\* taken (run_session returns: it catches its exceptions and its waits time out)
FairWorker ==
    \A j \in JobIds :
        /\ WF_vars(WorkerBegin(j))
        /\ WF_vars(\E ok \in BOOLEAN : BrowserLaunch(j, ok))
        /\ WF_vars(SpawnTask(j))
        /\ WF_vars(\E k \in 1..Len(task[j]) : TaskStep(j, k))
        /\ WF_vars(\E k \in 1..Len(task[j]), success \in BOOLEAN : TaskFinish(j, k, success))
        /\ WF_vars(\E ok \in BOOLEAN : GatherDone(j, ok))
        /\ WF_vars(WorkerResult(j))
        /\ WF_vars(WorkerStatus(j))
        /\ WF_vars(WorkerExcept(j))
        /\ WF_vars(WorkerFinally(j))

SpecBatchFair == SpecBatch /\ FairWorker

\* a step of the thread of job j
WorkerStep(j) ==
    \/ WorkerBegin(j)
    \/ \E ok \in BOOLEAN : BrowserLaunch(j, ok)
    \/ SpawnTask(j)
    \/ \E k \in 1..Len(task[j]) : TaskStep(j, k)
    \/ \E k \in 1..Len(task[j]), success \in BOOLEAN : TaskFinish(j, k, success)
    \/ \E ok \in BOOLEAN : GatherDone(j, ok)
    \/ WorkerResult(j)
    \/ WorkerStatus(j)
    \/ WorkerExcept(j)
    \/ WorkerFinally(j)

\* one submitted job, its thread, the status and stop requests of its owner
\* for the jobs of the index, and the clock passing the expiry time of a job
NextRun ==
    \/ \E s \in Clients, j \in job_store : GetStatus(s, j)
    \/ \E s \in Clients, j \in job_store : StopSimulator(s, j)
    \/ \E j \in JobIds : WorkerStep(j)
    \/ Tick(JOB_EXPIRY_SECONDS + 1)

\* the thread of a job keeps running: while it has a step to take it takes
\* one in the end (every session finishes: run_session catches its errors
\* and its waits time out)
SpecRun == InitBatch /\ [][NextRun]_vars /\ \A j \in JobIds : WF_vars(WorkerStep(j))

\* the session that submitted the job goes on: its thread runs, the clock
\* passes the expiry time of the job, and the session asks for the status of
\* the jobs of the index, fetches challenges and sends start requests,
\* MaxResubmit requests in all
InitResubmit ==
    /\ \E total \in 1..MaxBatch : SubmittedCounting(total, MaxRequests - MaxResubmit)
    /\ ticks = 0

NextResubmit ==
    \/ \E s \in Clients, nonce \in Nonces, tok \in Tokens : GetChallenge(s, nonce, tok)
    \/ \E s \in Clients, ip \in ReqIPs, tok \in Tokens \cup {""}, sol \in Solutions,
          gtm \in Snippets, n \in Counts : StartSimulator(s, ip, tok, sol, gtm, n)
    \/ \E s \in Clients, j \in job_store : GetStatus(s, j)
    \/ \E j \in JobIds : WorkerStep(j)
    \/ Tick(JOB_EXPIRY_SECONDS + 1)

SpecResubmit == InitResubmit /\ [][NextResubmit]_vars

\* a direct call of rate_limiter.check_and_record(ip)
CheckAndRecord(ip) ==
    /\ calls < MaxCallsRL
    /\ calls' = calls + 1
    /\ RateLimiterStep(ip)
    /\ lastCall' = [ip |-> ip, at |-> now, allowed |-> RateAllowed(ip, now)]
    /\ UNCHANGED <<now, ticks, purevars, gatevars, workvars>>

\* the clock advances between two calls
TickRL(d) ==
    /\ ticks < MaxTicksRL
    /\ ticks' = ticks + 1
    /\ now' = now + d
    /\ UNCHANGED <<rlvars, lastCall, purevars, calls, gatevars, workvars>>

NextRL ==
    \/ \E ip \in RLIPs : CheckAndRecord(ip)
    \/ \E d \in RLSteps : TickRL(d)

SpecRL == Init /\ [][NextRL]_vars

\* the clock steps that let a timestamp leave its window between two full
\* cleanups: to the edge of the hour or of the day, then half a minute
StoredSteps == {30, 3599, 86399}

NextStored ==
    \/ \E ip \in RLIPs : CheckAndRecord(ip)
    \/ \E d \in StoredSteps : TickRL(d)

SpecStored == Init /\ [][NextStored]_vars

\* ---------------------------- check_and_record run by several request threads
\* The server handles each request in a thread of its own and RateLimiter has
\* no lock, so the statements of two calls interleave.  A call lasts far less
\* than a step of the clock: the clock stands still while a call runs.
Outside == \A t \in Threads : rlt[t].pc = "idle"

\* a thread calls check_and_record(ip): _cleanup reads the clock and returns
\* at once unless the full cleanup is due
ThreadEnter(t, ip) ==
    /\ rlt[t].pc = "idle"
    /\ calls < MaxThreadCalls
    /\ calls' = calls + 1
    /\ rlt' = [rlt EXCEPT ![t] = [pc |-> IF CleanupDue(now) THEN "build_hourly"
                                                            ELSE "check_hourly",
                                  ip |-> ip, now |-> now, built |-> <<>>]]
    /\ UNCHANGED <<now, rlvars, lastCall, ticks, gatevars, workvars,
                   arg, ret, users, max_pool_size, utcnow, events, gpc,
                   storage_states, held, saved>>

\* _cleanup: one of the two dict comprehensions is evaluated
ThreadBuild(t) ==
    /\ rlt[t].pc \in {"build_hourly", "build_daily"}
    /\ rlt' = [rlt EXCEPT
                ![t].built = IF rlt[t].pc = "build_hourly"
                             THEN Purged(hourly, rlt[t].now - HOUR_SECONDS)
                             ELSE Purged(daily, rlt[t].now - DAY_SECONDS),
                ![t].pc = IF rlt[t].pc = "build_hourly" THEN "store_hourly"
                                                        ELSE "store_daily"]
    /\ UNCHANGED <<now, rlvars, lastCall, ticks, calls, gatevars, workvars,
                   arg, ret, users, max_pool_size, utcnow, events, gpc,
                   storage_states, held, saved>>

\* _cleanup: the new dict is assigned to self._hourly or to self._daily
ThreadStore(t) ==
    /\ rlt[t].pc \in {"store_hourly", "store_daily"}
    /\ IF rlt[t].pc = "store_hourly"
       THEN /\ hourly' = rlt[t].built
            /\ UNCHANGED daily
       ELSE /\ daily' = rlt[t].built
            /\ UNCHANGED hourly
    /\ rlt' = [rlt EXCEPT ![t].built = <<>>,
                          ![t].pc = IF rlt[t].pc = "store_hourly" THEN "build_daily"
                                                                  ELSE "stamp"]
    /\ UNCHANGED <<now, last_cleanup, allowedLog, lastCall, ticks, calls, gatevars,
                   workvars, arg, ret, users, max_pool_size, utcnow, events, gpc,
                   storage_states, held, saved>>

\* _cleanup: self._last_cleanup = now
ThreadStamp(t) ==
    /\ rlt[t].pc = "stamp"
    /\ last_cleanup' = rlt[t].now
    /\ rlt' = [rlt EXCEPT ![t].pc = "check_hourly"]
    /\ UNCHANGED <<now, hourly, daily, allowedLog, lastCall, ticks, calls, gatevars,
                   workvars, arg, ret, users, max_pool_size, utcnow, events, gpc,
                   storage_states, held, saved>>

\* one of the two limit tests: the call returns False or goes on
ThreadCheck(t) ==
    /\ rlt[t].pc \in {"check_hourly", "check_daily"}
    /\ LET full == IF rlt[t].pc = "check_hourly"
                   THEN HourlyFull(hourly, rlt[t].ip, rlt[t].now)
                   ELSE DailyFull(daily, rlt[t].ip, rlt[t].now)
       IN  IF full
           THEN /\ rlt' = [rlt EXCEPT ![t] = NoLocals]
                /\ lastCall' = [ip |-> rlt[t].ip, at |-> rlt[t].now, allowed |-> FALSE]
           ELSE /\ rlt' = [rlt EXCEPT ![t].pc = IF rlt[t].pc = "check_hourly"
                                                THEN "check_daily" ELSE "record_hourly"]
                /\ UNCHANGED lastCall
    /\ UNCHANGED <<now, rlvars, ticks, calls, gatevars, workvars,
                   arg, ret, users, max_pool_size, utcnow, events, gpc,
                   storage_states, held, saved>>

\* self._hourly[ip].append(now), or self._daily[ip].append(now) and return True
ThreadRecord(t) ==
    /\ rlt[t].pc \in {"record_hourly", "record_daily"}
    /\ IF rlt[t].pc = "record_hourly"
       THEN /\ hourly' = Recorded(hourly, rlt[t].ip, rlt[t].now)
            /\ rlt' = [rlt EXCEPT ![t].pc = "record_daily"]
            /\ UNCHANGED <<daily, allowedLog, lastCall>>
       ELSE /\ daily' = Recorded(daily, rlt[t].ip, rlt[t].now)
            /\ rlt' = [rlt EXCEPT ![t] = NoLocals]
            /\ allowedLog' = [allowedLog EXCEPT ![rlt[t].ip] = Append(@, rlt[t].now)]
            /\ lastCall' = [ip |-> rlt[t].ip, at |-> rlt[t].now, allowed |-> TRUE]
            /\ UNCHANGED hourly
    /\ UNCHANGED <<now, last_cleanup, ticks, calls, gatevars, workvars,
                   arg, ret, users, max_pool_size, utcnow, events, gpc,
                   storage_states, held, saved>>

NextThreads ==
    \/ \E t \in Threads, ip \in RLIPs : ThreadEnter(t, ip)
    \/ \E t \in Threads : ThreadBuild(t)
    \/ \E t \in Threads : ThreadStore(t)
    \/ \E t \in Threads : ThreadStamp(t)
    \/ \E t \in Threads : ThreadCheck(t)
    \/ \E t \in Threads : ThreadRecord(t)
    \/ \E d \in RLSteps : Outside /\ TickRL(d)

SpecThreads == Init /\ [][NextThreads]_vars

\* ----------------------------------------------------------- user_pool.py
MICROSECONDS == 1000000
PoolSteps == {1, 999999, 1000000}

\* datetime.isoformat(): 'YYYY-MM-DDTHH:MM:SS', followed by '.ffffff' unless
\* the microsecond is 0.  The string is given by its fields: the seconds, of
\* fixed width, and the six digits of the microseconds when they are there.
IsoFormat(t) ==
    IF t % MICROSECONDS = 0
    THEN <<t \div MICROSECONDS>>
    ELSE <<t \div MICROSECONDS, t % MICROSECONDS>>

\* str < str: character by character, a proper prefix before the longer string
StrLess(a, b) ==
    \/ a[1] < b[1]
    \/ a[1] = b[1] /\ Len(a) < Len(b)
    \/ a[1] = b[1] /\ Len(a) = 2 /\ Len(b) = 2 /\ a[2] < b[2]

\* index of the user with the key user_id in the dict, 0 when absent
IndexOf(us, id) ==
    IF \E i \in 1..Len(us) : us[i].id = id
    THEN CHOOSE i \in 1..Len(us) : us[i].id = id
    ELSE 0

\* self._users[user.id] = {...}: a present key keeps its place in the dict
Stored(us, id, count, t) ==
    LET entry == [id |-> id, session_count |-> count + 1, last_visit |-> IsoFormat(t)]
    IN  IF IndexOf(us, id) = 0 THEN Append(us, entry)
        ELSE [us EXCEPT ![IndexOf(us, id)] = entry]

\* sorted(...) then pop() instead of pop(0): the last user of the sorted list
FirstSorted_Last(us) ==
    CHOOSE i \in 1..Len(us) :
        \A k \in 1..Len(us) :
            /\ ~StrLess(us[i].last_visit, us[k].last_visit)
            /\ us[k].last_visit = us[i].last_visit => k <= i

\* sorted(self._users.items(), key=last_visit).pop(0): the sort is stable, so
\* of the users with the least key the first of the dict comes first
FirstSorted(us) ==
    CHOOSE i \in 1..Len(us) :
        \A k \in 1..Len(us) :
            /\ ~StrLess(us[k].last_visit, us[i].last_visit)
            /\ us[k].last_visit = us[i].last_visit => i <= k

Without(us, i) == SubSeq(us, 1, i - 1) \o SubSeq(us, i + 1, Len(us))

\* UserPool._enforce_pool_limit
RECURSIVE EnforcePoolLimit(_, _)
EnforcePoolLimit(us, max) ==
    IF Len(us) <= max THEN us
    ELSE EnforcePoolLimit(Without(us, FirstSorted(us)), max)

\* the User object of a session: a new user (session_count 0; its generated id
\* may be one the pool holds) or the returning user the pool gave out
UserCount(us, id, returning) ==
    IF returning /\ IndexOf(us, id) # 0 THEN us[IndexOf(us, id)].session_count ELSE 0

\* the ids of the users of the dict
Ids(us) == {us[i].id : i \in 1..Len(us)}

\* save_user_state and _enforce_pool_limit leaving the state of a deleted user
\* in _storage_states
StoredStates_NoPop(states, id, stored, kept) == states \cup {id}

\* the keys of _storage_states after save_user_state: the state of the user is
\* stored, and _enforce_pool_limit pops the state of every user it deletes
StoredStates(states, id, stored, kept) == (states \cup {id}) \ (Ids(stored) \ Ids(kept))

\* UserPool.save_user_state(user, storage_state) at the end of a session that
\* ran alone: the User object is the one get_user made from the present pool
SaveUserState(id, returning) ==
    /\ calls < MaxSaves
    /\ calls' = calls + 1
    /\ LET stored == Stored(users, id, UserCount(users, id, returning), utcnow)
           kept == EnforcePoolLimit(stored, max_pool_size)
       IN  /\ users' = kept
           /\ storage_states' = StoredStates(storage_states, id, stored, kept)
           /\ ret' = [fn |-> "save", evicted |-> Ids(stored) \ Ids(kept)]
    /\ arg' = [fn |-> "save", id |-> id]
    /\ saved' = [saved EXCEPT ![id] = @ + 1]
    /\ UNCHANGED <<now, rlvars, lastCall, ticks, gatevars, workvars, held, rlt,
                   max_pool_size, utcnow, events, gpc>>

\* the clock advances between two sessions
PoolTick(d) ==
    /\ ticks < MaxPoolTicks
    /\ ticks' = ticks + 1
    /\ utcnow' = utcnow + d
    /\ UNCHANGED <<now, rlvars, lastCall, calls, gatevars, workvars, concvars,
                   arg, ret, users, max_pool_size, events, gpc>>

\* UserPool(config) of a batch
InitPool ==
    /\ ServiceIdle
    /\ arg = NoCall
    /\ ret = NoCall
    /\ users = <<>>
    /\ max_pool_size \in 1..MaxPool
    /\ utcnow = StartTime * MICROSECONDS
    /\ events = <<>>
    /\ gpc = NoGen
    /\ ConcIdle

NextPool ==
    \/ \E id \in UserIds, returning \in BOOLEAN : SaveUserState(id, returning)
    \/ \E d \in PoolSteps : PoolTick(d)

SpecPool == InitPool /\ [][NextPool]_vars

\* _user_from_data(user_id, user_data)
UserFromData(data) ==
    [id |-> data.id, session_count |-> data.session_count, is_new |-> FALSE]

\* _create_new_user with the id _generate_user_id() made
CreateNewUser(id) == [id |-> id, session_count |-> 0, is_new |-> TRUE]

\* get_user: should_return is "random.random() < returning_user_rate", pick
\* the place in the dict of the user the weighted draw of _get_returning_user
\* falls on (every weight is positive, so it can be any user), id the
\* generated id of a new user
GetUserResult(us, should_return, pick, id) ==
    IF should_return /\ Len(us) > 0 THEN UserFromData(us[pick]) ELSE CreateNewUser(id)

\* _generate_user_id(): the time in seconds and 24 random bits, taken here as
\* an id that no session of the batch holds and no save has used
FreshUserIds == {id \in UserIds : saved[id] = 0 /\ \A g \in Handles : held[g].id # id}

\* _run_session_with_semaphore: a session starts with user_pool.get_user()
GetUser(h, should_return, pick, id) ==
    /\ held[h] = NoUser
    /\ Len(users) > 0 => pick \in 1..Len(users)
    /\ ~(should_return /\ Len(users) > 0) => id \in FreshUserIds
    /\ held' = [held EXCEPT ![h] = GetUserResult(users, should_return, pick, id)]
    /\ UNCHANGED <<now, rlvars, lastCall, ticks, calls, gatevars, workvars,
                   arg, ret, users, max_pool_size, utcnow, events, gpc,
                   storage_states, saved, rlt>>

\* run_session of the session has come to user_pool.save_user_state(user,
\* storage_state): other sessions may have run since its get_user
SessionSaves(h) ==
    /\ held[h] # NoUser
    /\ calls < MaxSessionSaves
    /\ calls' = calls + 1
    /\ LET id == held[h].id
           stored == Stored(users, id, held[h].session_count, utcnow)
           kept == EnforcePoolLimit(stored, max_pool_size)
       IN  /\ users' = kept
           /\ storage_states' = StoredStates(storage_states, id, stored, kept)
           /\ ret' = [fn |-> "save", evicted |-> Ids(stored) \ Ids(kept)]
           /\ arg' = [fn |-> "save", id |-> id]
           /\ saved' = [saved EXCEPT ![id] = @ + 1]
    /\ held' = [held EXCEPT ![h] = NoUser]
    /\ UNCHANGED <<now, rlvars, lastCall, ticks, gatevars, workvars, rlt,
                   max_pool_size, utcnow, events, gpc>>

\* run_session of the session has raised before save_user_state: it returns
\* its failure and nothing is saved
SessionFails(h) ==
    /\ held[h] # NoUser
    /\ held' = [held EXCEPT ![h] = NoUser]
    /\ UNCHANGED <<now, rlvars, lastCall, ticks, calls, gatevars, workvars,
                   arg, ret, users, max_pool_size, utcnow, events, gpc,
                   storage_states, saved, rlt>>

\* load_storage_state(user_id): self._storage_states.get(user_id)
LoadStorageState(id) ==
    /\ arg' = [fn |-> "load", id |-> id]
    /\ ret' = [fn |-> "load", found |-> id \in storage_states]
    /\ UNCHANGED <<now, rlvars, lastCall, ticks, calls, gatevars, workvars,
                   users, max_pool_size, utcnow, events, gpc, concvars>>

\* clear()
Clear ==
    /\ users' = <<>>
    /\ storage_states' = {}
    /\ arg' = [fn |-> "clear"]
    /\ ret' = [fn |-> "clear"]
    /\ UNCHANGED <<now, rlvars, lastCall, ticks, calls, gatevars, workvars,
                   max_pool_size, utcnow, events, gpc, held, saved, rlt>>

\* the pool of one batch and the sessions that use it: between the get_user
\* and the save_user_state of a session the event loop runs other sessions
NextSessions ==
    \/ \E h \in Handles, should_return \in BOOLEAN, pick \in 0..Len(users), id \in UserIds :
            GetUser(h, should_return, pick, id)
    \/ \E h \in Handles : SessionSaves(h)
    \/ \E h \in Handles : SessionFails(h)
    \/ \E id \in UserIds : LoadStorageState(id)
    \/ Clear
    \/ ticks < MaxSessionTicks /\ PoolTick(MICROSECONDS)

SpecSessions == InitPool /\ [][NextSessions]_vars

\* ----------------------------------------------------------- scenarios.py
ScenarioTypes == {"bounce", "browse", "cart_abandon", "checkout_abandon", "purchase"}

\* the values of random.randint(1, 5)
BrowseLoops == 1..(IF MaxLoops < 5 THEN MaxLoops ELSE 5)

\* x in events
Has(ev, x) == \E k \in 1..Len(ev) : ev[k] = x

AppendIf(ev, cond, x) == IF cond THEN Append(ev, x) ELSE ev

\* the generator that runs after the one at position 'at' has returned to its
\* caller, for the scenario type
After(scenario, at) ==
    IF at = "browse" THEN (IF scenario = "browse" THEN "done" ELSE "cart")
    ELSE IF at = "cart" THEN (IF scenario = "cart_abandon" THEN "done" ELSE "checkout")
    ELSE IF at = "checkout" THEN (IF scenario = "checkout_abandon" THEN "done" ELSE "purchase")
    ELSE "done"

\* generate_event_sequence(scenario_type): _generate_bounce_sequence returns,
\* every other generator reaches _generate_browse_sequence, which draws
\* browse_loops
GenerateEventSequence(scenario, loops) ==
    /\ gpc.at = "none"
    /\ IF scenario = "bounce"
       THEN /\ events' = <<"page_view">>
            /\ gpc' = [scenario |-> scenario, at |-> "done", loops |-> 0, i |-> 0]
       ELSE /\ events' = <<"page_view", "view_item_list">>
            /\ gpc' = [scenario |-> scenario, at |-> "browse", loops |-> loops, i |-> 0]
    /\ UNCHANGED <<now, rlvars, lastCall, ticks, calls, gatevars, workvars, concvars,
                   arg, ret, users, max_pool_size, utcnow>>

\* one round of the loop of _generate_browse_sequence, with the outcomes of
\* its three random.random() comparisons; the generator returns after the
\* last round
BrowseLoop(item, select, list) ==
    /\ gpc.at = "browse"
    /\ gpc.i < gpc.loops
    /\ events' = AppendIf(AppendIf(AppendIf(events, item, "view_item"),
                                   select, "select_item"),
                          list /\ gpc.i < gpc.loops - 1, "view_item_list")
    /\ gpc' = IF gpc.i + 1 < gpc.loops
              THEN [gpc EXCEPT !.i = gpc.i + 1]
              ELSE [gpc EXCEPT !.i = gpc.i + 1, !.at = After(gpc.scenario, "browse")]
    /\ UNCHANGED <<now, rlvars, lastCall, ticks, calls, gatevars, workvars, concvars,
                   arg, ret, users, max_pool_size, utcnow>>

\* _generate_cart_abandon_sequence after its call of _generate_browse_sequence
CartEvents(ev, again, item, add, remove, readd) ==
    LET e1 == Append(ev, "add_to_cart")
        e2 == IF again
              THEN AppendIf(AppendIf(Append(e1, "view_item_list"), item, "view_item"),
                            add, "add_to_cart")
              ELSE e1
    IN  IF remove
        THEN AppendIf(Append(e2, "remove_from_cart"), readd, "add_to_cart")
        ELSE e2

CartAbandon(again, item, add, remove, readd) ==
    /\ gpc.at = "cart"
    /\ events' = CartEvents(events, again, item, add, remove, readd)
    /\ gpc' = [gpc EXCEPT !.at = After(gpc.scenario, "cart")]
    /\ UNCHANGED <<now, rlvars, lastCall, ticks, calls, gatevars, workvars, concvars,
                   arg, ret, users, max_pool_size, utcnow>>

\* _generate_checkout_abandon_sequence after its call of
\* _generate_cart_abandon_sequence
CheckoutAbandon(payment) ==
    /\ gpc.at = "checkout"
    /\ events' = AppendIf(Append(events, "begin_checkout"), payment, "add_payment_info")
    /\ gpc' = [gpc EXCEPT !.at = After(gpc.scenario, "checkout")]
    /\ UNCHANGED <<now, rlvars, lastCall, ticks, calls, gatevars, workvars, concvars,
                   arg, ret, users, max_pool_size, utcnow>>

\* _generate_purchase_sequence without "if 'add_payment_info' not in events"
PurchaseEvents_NoPayment(ev) == Append(ev, "purchase")

\* _generate_purchase_sequence after its call of
\* _generate_checkout_abandon_sequence
PurchaseEvents(ev) ==
    Append(AppendIf(ev, ~Has(ev, "add_payment_info"), "add_payment_info"), "purchase")

Purchase ==
    /\ gpc.at = "purchase"
    /\ events' = PurchaseEvents(events)
    /\ gpc' = [gpc EXCEPT !.at = "done"]
    /\ UNCHANGED <<now, rlvars, lastCall, ticks, calls, gatevars, workvars, concvars,
                   arg, ret, users, max_pool_size, utcnow>>

NextScenario ==
    \/ \E scenario \in ScenarioTypes, loops \in BrowseLoops :
            GenerateEventSequence(scenario, loops)
    \/ \E item \in BOOLEAN, select \in BOOLEAN, list \in BOOLEAN :
            BrowseLoop(item, select, list)
    \/ \E again \in BOOLEAN, item \in BOOLEAN, add \in BOOLEAN, remove \in BOOLEAN,
          readd \in BOOLEAN : CartAbandon(again, item, add, remove, readd)
    \/ \E payment \in BOOLEAN : CheckoutAbandon(payment)
    \/ Purchase

SpecScenario == Init /\ [][NextScenario]_vars

\* ----------------------------------------------------- traffic_sources.py
\* weights and draws are in hundredths
Weights == {0, 30, 60}
Draws == {0, 29, 30, 59, 60, 89, 90, 99}      \* values of random.random()

RECURSIVE SeqsUpTo(_, _)
SeqsUpTo(S, n) ==
    IF n = 0 THEN {<<>>}
    ELSE SeqsUpTo(S, n - 1) \cup {Append(q, x) : q \in SeqsUpTo(S, n - 1), x \in S}

\* the configured traffic sources, each given by its weight
SourceLists == SeqsUpTo(Weights, MaxSources)

\* 'cumulative' after the first k sources
RECURSIVE Cumulative(_, _)
Cumulative(ws, k) == IF k = 0 THEN 0 ELSE Cumulative(ws, k - 1) + ws[k]

\* select_traffic_source returning _create_direct_source() after the loop
SelectTrafficSource_DirectAfterLoop(ws, rand) ==
    IF Len(ws) = 0 THEN 0
    ELSE IF \E k \in 1..Len(ws) : rand < Cumulative(ws, k)
    THEN CHOOSE k \in 1..Len(ws) :
            /\ rand < Cumulative(ws, k)
            /\ \A i \in 1..(k - 1) : ~(rand < Cumulative(ws, i))
    ELSE 0

\* select_traffic_source: the place in the list of the source it returns, 0
\* for the source _create_direct_source() makes
SelectTrafficSource(ws, rand) ==
    IF Len(ws) = 0 THEN 0
    ELSE IF \E k \in 1..Len(ws) : rand < Cumulative(ws, k)
    THEN CHOOSE k \in 1..Len(ws) :
            /\ rand < Cumulative(ws, k)
            /\ \A i \in 1..(k - 1) : ~(rand < Cumulative(ws, i))
    ELSE 1

\* ------------------------------------------ functions called on their own
\* start_simulator computes the session count of the request's 'sessions'
ClampCall ==
    /\ arg.fn = "clamp"
    /\ ret = NoCall
    /\ ret' = [fn |-> "clamp", val |-> ClampSessions(arg.n)]
    /\ UNCHANGED <<now, rlvars, lastCall, ticks, calls, gatevars, workvars, concvars,
                   arg, users, max_pool_size, utcnow, events, gpc>>

InitClamp ==
    /\ ServiceIdle
    /\ \E x \in JsonValues : arg = [fn |-> "clamp", n |-> x]
    /\ ret = NoCall
    /\ users = <<>>
    /\ max_pool_size = 0
    /\ utcnow = 0
    /\ events = <<>>
    /\ gpc = NoGen
    /\ ConcIdle

SpecClamp == InitClamp /\ [][ClampCall]_vars

\* ProofOfWork.verify_solution is called
VerifyCall ==
    /\ arg.fn = "verify"
    /\ ret = NoCall
    /\ ret' = [fn |-> "verify",
               val |-> VerifySolution(arg.nonce, arg.solution, arg.difficulty)]
    /\ UNCHANGED <<now, rlvars, lastCall, ticks, calls, gatevars, workvars, concvars,
                   arg, users, max_pool_size, utcnow, events, gpc>>

InitVerify ==
    /\ ServiceIdle
    /\ \E nonce \in Nonces \cup {""}, solution \in Solutions, difficulty \in 0..MaxDifficulty :
            arg = [fn |-> "verify", nonce |-> nonce, solution |-> solution,
                   difficulty |-> difficulty]
    /\ ret = NoCall
    /\ users = <<>>
    /\ max_pool_size = 0
    /\ utcnow = 0
    /\ events = <<>>
    /\ gpc = NoGen
    /\ ConcIdle

SpecVerify == InitVerify /\ [][VerifyCall]_vars

\* select_traffic_source is called and draws rand
SelectCall ==
    /\ arg.fn = "select"
    /\ ret = NoCall
    /\ ret' = [fn |-> "select", val |-> SelectTrafficSource(arg.sources, arg.rand)]
    /\ UNCHANGED <<now, rlvars, lastCall, ticks, calls, gatevars, workvars, concvars,
                   arg, users, max_pool_size, utcnow, events, gpc>>

InitSelect ==
    /\ ServiceIdle
    /\ \E ws \in SourceLists, rand \in Draws :
            arg = [fn |-> "select", sources |-> ws, rand |-> rand]
    /\ ret = NoCall
    /\ users = <<>>
    /\ max_pool_size = 0
    /\ utcnow = 0
    /\ events = <<>>
    /\ gpc = NoGen
    /\ ConcIdle

SpecSelect == InitSelect /\ [][SelectCall]_vars

\* ------------------------------------------------------------------ C1
\* number of allowed calls of ip in the trailing window (t - w, t]
AllowedIn(ip, t, w) ==
    Cardinality({k \in 1..Len(allowedLog[ip]) :
                    allowedLog[ip][k] > t - w /\ allowedLog[ip][k] <= t})

\* C1: for every ip, the calls that returned allowed within any trailing
\* 3600-second window number at most 3, and within any trailing
\* 86400-second window at most 10.
C1_RateCaps ==
    \A ip \in IPs : \A k \in 1..Len(allowedLog[ip]) :
        /\ AllowedIn(ip, allowedLog[ip][k], 3600) <= 3
        /\ AllowedIn(ip, allowedLog[ip][k], 86400) <= 10

\* a call is rejected by the daily cap alone: ten calls were allowed in the
\* last day, fewer than three of them in the last hour
C1_Witness ==
    /\ lastCall.ip \in IPs
    /\ lastCall.at = now
    /\ ~lastCall.allowed
    /\ AllowedIn(lastCall.ip, now, 86400) = 10
    /\ AllowedIn(lastCall.ip, now, 3600) < 3

\* ------------------------------------------------------------------ C2
\* the stages of wrapped() that lie behind the CSRF check, the proof-of-work
\* check and the session-age check
PastCsrf == {"pow_expired", "pow_invalid", "session_age", "snippets", "duplicate",
             "error", "pass"}
PastPow == {"session_age", "snippets", "duplicate", "error", "pass"}
PastAge == {"snippets", "duplicate", "error", "pass"}
PastSnippets == {"duplicate", "error", "pass"}

\* the status code the gate is to answer with, read off the state before the
\* request: the first failing check of rate limit, CSRF, proof of work,
\* session age, target configuration, duplicate job
C2_Expected(s, ip, tok, sol, gtm) ==
    LET sess == session[s]
        ch == sess.pow_challenge
    IN  IF AllowedIn(ip, now, 3600) >= 3 \/ AllowedIn(ip, now, 86400) >= 10 THEN 429
        ELSE IF tok = "" \/ sess.csrf_token # tok THEN 403
        ELSE IF \/ ch = NoChallenge
                \/ now >= ch.expires_at
                \/ sol = ""
                \/ LeadingZeros(ch.nonce \o sol) < ch.difficulty THEN 400
        ELSE IF sess.session_created = NoTime \/ now - sess.session_created < 10 THEN 400
        ELSE IF gtm = "" THEN 400
        ELSE IF /\ sess.simulator_job_id \in job_store
                /\ jobObj[sess.simulator_job_id].status = "running" THEN 409
        ELSE 202

\* C2: a start request is answered with the status code of the first failing
\* check in the order rate limit (429), CSRF (403), proof of work (400),
\* session age (400), target configuration (400), duplicate job (409), and
\* the job is created only if all six pass.
C2_GateOrder ==
    [][\A s \in Clients, ip \in ReqIPs, tok \in Tokens \cup {""}, sol \in Solutions,
          gtm \in Snippets, n \in Counts :
            StartSimulator(s, ip, tok, sol, gtm, n) =>
                /\ resp'.code = C2_Expected(s, ip, tok, sol, gtm)
                /\ jobObj' # jobObj => C2_Expected(s, ip, tok, sol, gtm) = 202]_vars

\* ------------------------------------------------------------------ C3
\* the proof-of-work check of wrapped() would pass for the session's
\* challenge with the solution
PowAccepts(s, sol) ==
    /\ IsChallengeValid(session[s].pow_challenge, now)
    /\ VerifySolution(session[s].pow_challenge.nonce, sol,
                      session[s].pow_challenge.difficulty)

\* C3: once a start request of a session has passed the proof-of-work check,
\* the session holds no challenge, a session without a challenge passes the
\* check with no solution (so not with the same nonce and solution either),
\* and only GET /challenge gives a session a challenge.
C3_ChallengeOnce ==
    /\ [](resp.op = "start" /\ resp.stage \in PastPow =>
            session[resp.sid].pow_challenge = NoChallenge)
    /\ [](\A s \in Sessions : session[s].pow_challenge = NoChallenge =>
            \A sol \in Solutions : ~PowAccepts(s, sol))
    /\ [][\A s \in Sessions :
            /\ session'[s].pow_challenge # session[s].pow_challenge
            /\ session'[s].pow_challenge # NoChallenge
            => \E nonce \in Nonces, tok \in Tokens : GetChallenge(s, nonce, tok)]_vars

\* a start request has just passed the proof-of-work check and the session's
\* challenge is gone
C3_Witness ==
    /\ resp.op = "start"
    /\ resp.stage \in PastPow
    /\ session[resp.sid].pow_challenge = NoChallenge

\* ------------------------------------------------------------------ C4
\* C4: the challenge is deleted after any verification attempt: after a start
\* request whose proof-of-work solution is rejected, the session holds no
\* challenge.
C4_DeletedOnFailure ==
    resp.op = "start" /\ resp.stage = "pow_invalid" =>
        session[resp.sid].pow_challenge = NoChallenge

\* ------------------------------------------------------------------ C5
\* C5: a token that validate_token has accepted is rejected by every later
\* validate_token of the session, until GET /challenge issues that token again.
C5_TokenSingleUse ==
    /\ [](resp.op = "start" /\ resp.stage \in PastCsrf =>
            ~ValidateToken(session[resp.sid], resp.tok))
    /\ [][\A s \in Sessions, t \in Tokens :
            ~ValidateToken(session[s], t) /\ ValidateToken(session[s], t)' =>
                \E nonce \in Nonces : GetChallenge(s, nonce, t)]_session

\* validate_token has just accepted a token, and would now reject it
C5_Witness ==
    /\ resp.op = "start"
    /\ resp.stage \in PastCsrf
    /\ resp.tok \in Tokens
    /\ ~ValidateToken(session[resp.sid], resp.tok)

\* ------------------------------------------------------------------ C6
\* the step is a start request of session s that validate_token rejected
\* although the request carried a (wrong) token and the session stored one
WrongTokenStep(s) ==
    /\ reqs' = reqs + 1
    /\ resp'.op = "start"
    /\ resp'.sid = s
    /\ resp'.stage = "csrf"
    /\ resp'.tok \in Tokens
    /\ session[s].csrf_token \in Tokens

\* C6 as claimed: validation consumes the stored token regardless of outcome:
\* after validate_token has rejected a wrong token, the stored token is
\* deleted.
C6_ConsumedOnFailure ==
    [][\A s \in Sessions : WrongTokenStep(s) => session'[s].csrf_token = None]_vars

\* C6 as amended: validation consumes the stored token only when it succeeds:
\* after validate_token has rejected a wrong token, the stored token is
\* still stored, and validate_token accepts the originally issued token.
C6_KeptOnFailure ==
    [][\A s \in Sessions : WrongTokenStep(s) =>
            /\ session'[s].csrf_token = session[s].csrf_token
            /\ ValidateToken(session'[s], session[s].csrf_token)]_vars

\* a start request with a wrong token has just been rejected, and the
\* session still stores its token
C6_Witness ==
    /\ resp.op = "start"
    /\ resp.stage = "csrf"
    /\ resp.tok \in Tokens
    /\ session[resp.sid].csrf_token \in Tokens
    /\ session[resp.sid].csrf_token # resp.tok

\* ------------------------------------------------------------------ C7
\* the step is a start request of session s that reached check_session_age
AgeCheckStep(s) ==
    /\ reqs' = reqs + 1
    /\ resp'.op = "start"
    /\ resp'.sid = s
    /\ resp'.stage \in PastPow

\* C7: the first session-age check of a session records the current time and
\* rejects; every later one passes exactly when at least 10 seconds have
\* passed since the recorded time; the recorded time is never overwritten.
C7_SessionAge ==
    [][\A s \in Sessions :
        /\ session[s].session_created # NoTime =>
                session'[s].session_created = session[s].session_created
        /\ AgeCheckStep(s) =>
                IF session[s].session_created = NoTime
                THEN /\ resp'.stage = "session_age"
                     /\ session'[s].session_created = now
                ELSE resp'.stage # "session_age" <=>
                        now - session[s].session_created >= 10]_vars

\* a start request has just passed the session-age check, exactly 10 seconds
\* after the first check of the session recorded its time
C7_Witness ==
    /\ resp.op = "start"
    /\ resp.stage \in PastAge
    /\ now - session[resp.sid].session_created = 10

\* ------------------------------------------------------------------ C8
\* the step is a start request of session s that reached check_no_running_job
GuardStep(s) ==
    /\ reqs' = reqs + 1
    /\ resp'.op = "start"
    /\ resp'.sid = s
    /\ resp'.stage \in PastSnippets

\* C8: a start request that passes all earlier checks is answered 409 when
\* the session's recorded job is in the job index with status running, and
\* passes the guard when that job has another status or is absent.
C8_DuplicateGuard ==
    [][\A s \in Sessions : GuardStep(s) =>
            IF /\ session[s].simulator_job_id \in job_store
               /\ jobObj[session[s].simulator_job_id].status = "running"
            THEN resp'.code = 409
            ELSE resp'.stage = "pass"]_vars

\* ------------------------------------------------------------------ C9
\* the status changes a job may make
Transitions ==
    {<<None, "pending">>, <<"pending", "running">>, <<"running", "completed">>,
     <<"running", "failed">>, <<"running", "stopped">>}

\* C9: a job is created in pending, leaves pending only for running, leaves
\* running only for completed, failed or stopped, and never leaves those.
C9_Transitions ==
    [][\A j \in JobIds :
            jobObj'[j].status # jobObj[j].status =>
                <<jobObj[j].status, jobObj'[j].status>> \in Transitions]_vars

\* a job that was stopped while it ran has come to its end
C9_Witness ==
    \E j \in JobIds :
        /\ jobObj[j].status = "stopped"
        /\ wpc[j] = "done"
        /\ Len(task[j]) > 0

\* ----------------------------------------------------------------- C10
\* C10: for every job in a terminal status, completed = successful + failed.
C10_CountsAddUp ==
    \A j \in JobIds :
        jobObj[j].status \in {"completed", "failed", "stopped"} =>
            jobObj[j].completed = jobObj[j].successful + jobObj[j].failed

\* ----------------------------------------------------------------- C11
\* job j is running and a stop request for it has been acknowledged
Stopping(j) ==
    /\ jobObj[j].status = "running"
    /\ jobObj[j].stop_requested

\* C11: once a stop request is acknowledged for a running job, no session
\* without a concurrency slot is started, the job is never completed, and the
\* job eventually is stopped.
C11_StopWins ==
    /\ [][\A j \in JobIds : Stopping(j) =>
            \A k \in 1..Len(task[j]) :
                task[j][k] # "running" => task'[j][k] # "running"]_vars
    /\ [](\A j \in JobIds : jobObj[j].status = "completed" => ~jobObj[j].stop_requested)
    /\ \A j \in JobIds : Stopping(j) ~> (jobObj[j].status = "stopped")

\* ----------------------------------------------------------------- C12
\* the step is a POST /stop/<j> of session s
StopStep(s, j) ==
    /\ reqs' = reqs + 1
    /\ resp'.op = "stop"
    /\ resp'.sid = s
    /\ resp'.job = j

Owner(s, j) == session[s].simulator_job_id = j
Active(j) == jobObj[j].status \in {"pending", "running"}

\* the stop flag and the stop signal of job j are set by the step
StopSet(j) ==
    /\ jobObj' = [jobObj EXCEPT ![j].stop_requested = TRUE]
    /\ j \in job_stop_events => stop_event'[j]

\* C12 as claimed: a stop request is answered 404 for a job that is not in
\* the index, 403 for a caller that did not submit the job, 409 for a job
\* that is not pending or running, and otherwise 202 with the stop flag set;
\* a caller that did not submit the job never changes a job or a stop signal.
C12_StopCodesClaimed ==
    [][\A s \in Sessions, j \in JobIds : StopStep(s, j) =>
            /\ resp'.code = IF j \notin job_store THEN 404
                            ELSE IF ~Owner(s, j) THEN 403
                            ELSE IF ~Active(j) THEN 409
                            ELSE 202
            /\ resp'.code = 202 => StopSet(j)
            /\ ~Owner(s, j) => jobObj' = jobObj /\ stop_event' = stop_event]_vars

\* C12 as amended: a stop request is answered 404 for a job that is not in
\* the index, 400 for a job in the index that is not pending or running
\* (whoever asks), 403 for a pending or running job the caller did not
\* submit, and otherwise 200 with the stop flag set; a caller that did not
\* submit the job never changes a job or a stop signal.
C12_StopCodes ==
    [][\A s \in Sessions, j \in JobIds : StopStep(s, j) =>
            /\ resp'.code = IF j \notin job_store THEN 404
                            ELSE IF ~Active(j) THEN 400
                            ELSE IF ~Owner(s, j) THEN 403
                            ELSE 200
            /\ resp'.code = 200 => StopSet(j)
            /\ ~Owner(s, j) => jobObj' = jobObj /\ stop_event' = stop_event]_vars

\* a client that did not submit the running job has asked to stop it and got
\* 403; the job's stop flag and stop signal are not set
C12_Witness ==
    /\ resp.op = "stop"
    /\ resp.code = 403
    /\ resp.sid # "s1"
    /\ jobObj[resp.job].status = "running"
    /\ ~jobObj[resp.job].stop_requested
    /\ ~stop_event[resp.job]

\* ----------------------------------------------------------------- C13
\* the step is a status or stop request answered NotFound, Unauthorized or
\* Conflict
RefusedStep(op) ==
    /\ reqs' = reqs + 1
    /\ resp'.op = op
    /\ resp'.code \in {404, 403, 400, 409}

\* C13 as claimed: a status or stop request that is refused leaves the job
\* index, the registered stop signals and every field of every job as they
\* were.
C13_NoSideEffects ==
    [][RefusedStep("status") \/ RefusedStep("stop") =>
            /\ job_store' = job_store
            /\ job_stop_events' = job_stop_events
            /\ stop_event' = stop_event
            /\ jobObj' = jobObj]_vars

\* the jobs of the index that are older than 3600 seconds
Overdue == {j \in job_store : now - jobObj[j].started_at > 3600}

\* C13 as amended: a refused stop request leaves the job index, the
\* registered stop signals and every job as they were; a refused status
\* request leaves every job and every stop signal as it was and removes from
\* the job index and from the registered stop signals exactly the jobs older
\* than 3600 seconds.
C13_OnlyTheSweep ==
    [][/\ RefusedStep("stop") =>
            /\ job_store' = job_store
            /\ job_stop_events' = job_stop_events
            /\ stop_event' = stop_event
            /\ jobObj' = jobObj
       /\ RefusedStep("status") =>
            /\ job_store' = job_store \ Overdue
            /\ job_stop_events' = job_stop_events \ Overdue
            /\ stop_event' = stop_event
            /\ jobObj' = jobObj]_vars

\* a status request for a submitted job has been answered 404 because the
\* sweep of that request removed the job from the index
C13_Witness ==
    /\ resp.op = "status"
    /\ resp.code = 404
    /\ jobObj[resp.job].status # None
    /\ resp.job \notin job_store
    /\ now - jobObj[resp.job].started_at > 3600

\* ----------------------------------------------------------------- C14
\* C14: the session count computed for a requested count n is 10 when n is
\* missing, is not an integer, or is zero or negative; 50 when n > 50; n
\* itself when 1 <= n <= 50; so it always lies in 1..50.
C14_Clamp ==
    (arg.fn = "clamp" /\ ret.fn = "clamp") =>
        LET n == arg.n
            integer == n.t \in {"int", "bool"}
        IN  /\ ~integer => ret.val = 10
            /\ integer /\ n.v <= 0 => ret.val = 10
            /\ integer /\ n.v > 50 => ret.val = 50
            /\ integer /\ 1 <= n.v /\ n.v <= 50 => ret.val = n.v
            /\ ret.val \in 1..50

\* the session count of a request for more than 50 sessions has been
\* computed
C14_Witness ==
    /\ arg.fn = "clamp"
    /\ ret.fn = "clamp"
    /\ arg.n.t = "int"
    /\ arg.n.v > 50
    /\ ret.val = 50

\* ----------------------------------------------------------------- C15
\* the time a last_visit string names, in microseconds
VisitTime(str) == str[1] * 1000000 + (IF Len(str) = 2 THEN str[2] ELSE 0)

UserKeys(us) == {us[i].id : i \in 1..Len(us)}

\* C15: the pool never holds more than max_pool_size users, and a
\* save_user_state call removes only users that are no younger than every
\* user it keeps: every survivor's last_visit is no older than the last_visit
\* each removed user had when the call evicted.
C15_PoolLimit ==
    /\ [](Len(users) <= max_pool_size)
    /\ [][calls' = calls + 1 /\ arg'.fn = "save" =>
            LET present == UserKeys(users) \cup {arg'.id}
                evicted == present \ UserKeys(users')
                visit(id) == IF id = arg'.id THEN utcnow
                             ELSE VisitTime(users[IndexOf(users, id)].last_visit)
            IN  /\ UserKeys(users') \subseteq present
                /\ Cardinality(UserKeys(users')) = Len(users')
                /\ Len(users') = IF Cardinality(present) <= max_pool_size
                                 THEN Cardinality(present) ELSE max_pool_size
                /\ \A e \in evicted, u \in UserKeys(users') :
                        /\ visit(e) <= visit(u)
                        /\ VisitTime(users'[IndexOf(users', u)].last_visit) = visit(u)]_vars

\* a save_user_state call on a full pool has just removed a user; of the two
\* users it kept, one has a last_visit with microseconds and one without
C15_Witness ==
    /\ arg.fn = "save"
    /\ ret.fn = "save"
    /\ ret.evicted # {}
    /\ Len(users) = 2
    /\ Len(users[1].last_visit) # Len(users[2].last_visit)

\* ----------------------------------------------------------------- C16
\* C16: every event sequence generated for the purchase scenario holds
\* add_payment_info and purchase, and purchase is its last event.
C16_PurchaseLast ==
    (gpc.scenario = "purchase" /\ gpc.at = "done") =>
        /\ \E k \in 1..Len(events) : events[k] = "add_payment_info"
        /\ \E k \in 1..Len(events) : events[k] = "purchase"
        /\ events[Len(events)] = "purchase"

\* a purchase sequence has been generated whose checkout part drew no
\* add_payment_info: the event stands between begin_checkout and purchase
C16_Witness ==
    /\ gpc.scenario = "purchase"
    /\ gpc.at = "done"
    /\ Len(events) >= 3
    /\ events[Len(events) - 2] = "begin_checkout"
    /\ events[Len(events) - 1] = "add_payment_info"

\* ----------------------------------------------------------------- C17
\* the step runs _cleanup_old_jobs: a status request, or a start request that
\* passed the gate
SweepStep ==
    /\ reqs' = reqs + 1
    /\ \/ resp'.op = "status"
       \/ resp'.op = "start" /\ resp'.stage = "pass"

\* C17: right after an expiry sweep no job older than 3600 seconds is in the
\* index, whatever its status; no stop signal is registered for a job the
\* sweep removed; and every job of the index that is not older than 3600
\* seconds is still in the index, unchanged, with its stop signal.
C17_Sweep ==
    [][SweepStep =>
        /\ \A j \in job_store' : ~(now - jobObj'[j].started_at > 3600)
        /\ \A j \in job_store \ job_store' : j \notin job_stop_events'
        /\ \A j \in job_store :
                ~(now - jobObj[j].started_at > 3600) =>
                    /\ j \in job_store'
                    /\ jobObj'[j] = jobObj[j]
                    /\ j \in job_stop_events => j \in job_stop_events']_vars

\* a sweep has removed a job that is still running, and its stop signal
C17_Witness ==
    /\ resp.op = "status"
    /\ \E j \in JobIds :
        /\ jobObj[j].status = "running"
        /\ now - jobObj[j].started_at > 3600
        /\ j \notin job_store
        /\ j \notin job_stop_events

FirstOver(ws, rand) ==
    LET over == {k \in 1..Len(ws) : Cumulative(ws, k) > rand}
    IN  IF over = {} THEN 0 ELSE CHOOSE k \in over : \A i \in over : k <= i

\* C19 as claimed: select_traffic_source returns the first source whose
\* cumulative weight exceeds the draw, and the synthetic direct source when
\* there is no such source, be the list empty or not.
C19_DirectWhenNoMatch ==
    (arg.fn = "select" /\ ret.fn = "select") =>
        ret.val = FirstOver(arg.sources, arg.rand)

\* C19 as amended: select_traffic_source returns the first source whose
\* cumulative weight exceeds the draw; when no source does, it returns the
\* first configured source, and the synthetic direct source only when no
\* source is configured.
C19_FirstWhenNoMatch ==
    (arg.fn = "select" /\ ret.fn = "select") =>
        ret.val = IF FirstOver(arg.sources, arg.rand) # 0
                  THEN FirstOver(arg.sources, arg.rand)
                  ELSE IF Len(arg.sources) = 0 THEN 0 ELSE 1

\* two sources are configured, their weights sum to no more than the draw,
\* and the first of them has been returned
C19_Witness ==
    /\ arg.fn = "select"
    /\ ret.fn = "select"
    /\ Len(arg.sources) = 2
    /\ arg.sources[1] + arg.sources[2] <= arg.rand
    /\ ret.val = 1

\* ----------------------------------------------------------------- C20
\* the sessions of job j that have passed the semaphore and not yet finished
\* run_session
InFlight(j) == {k \in 1..Len(task[j]) : task[j][k] = "running"}

\* C20: at every moment of a batch run at most max_concurrent (3) sessions
\* are in flight.
C20_ConcurrencyCap ==
    \A j \in JobIds : Cardinality(InFlight(j)) <= 3

\* three sessions are in flight and a fourth waits for a slot
C20_Witness ==
    \E j \in JobIds :
        /\ Cardinality(InFlight(j)) = 3
        /\ \E k \in 1..Len(task[j]) : task[j][k] = "waiting"

\* ----------------------------------------------------------------- C21
\* the step in which run_session of a session of job j returns a result that
\* is not a success
FailedSessionStep(j) ==
    /\ \E k \in 1..Len(task[j]) : task[j][k] = "running" /\ task'[j][k] = "done"
    /\ progress'[j].successful = progress[j].successful

\* C21: a session that ends in an error is recorded as exactly one failed
\* session (completed and failed grow by one, successful stays, the job's
\* counters follow) and does not abort the batch: the step changes no other
\* session, raises nothing and leaves the job's status alone; a job fails
\* only by an error of the browser engine, and a job that was not stopped
\* has run all its sessions when run_batch returns.
C21_FailedSession ==
    /\ [][\A j \in JobIds : FailedSessionStep(j) =>
            /\ progress'[j].completed = progress[j].completed + 1
            /\ progress'[j].failed = progress[j].failed + 1
            /\ jobObj'[j].completed = progress'[j].completed
            /\ jobObj'[j].failed = progress'[j].failed
            /\ jobObj'[j].successful = progress'[j].successful
            /\ jobObj'[j].status = jobObj[j].status
            /\ Cardinality({k \in 1..Len(task[j]) : task'[j][k] # task[j][k]}) = 1
            /\ Len(task'[j]) = Len(task[j])
            /\ UNCHANGED <<wpc, exc>>]_vars
    /\ [](\A j \in JobIds : jobObj[j].status = "failed" =>
            exc[j] \in {"launch failed", "close failed"})
    /\ [](\A j \in JobIds : wpc[j] = "result" /\ ~stop_event[j] =>
            progress[j].successful + progress[j].failed = jobObj[j].total)

\* a job has completed with a failed session and a successful one among its
\* sessions
C21_Witness ==
    /\ jobObj[1].status = "completed"
    /\ jobObj[1].failed >= 1
    /\ jobObj[1].successful >= 1
    /\ jobObj[1].successful + jobObj[1].failed = jobObj[1].total

\* ----------------------------------------------------------------- C22
\* C22: when the batch run has raised, the job ends failed, with the
\* exception's message as its error and finished_at set, and its three
\* counters are the ones progress last reported.
C22_FailedKeepsCounts ==
    \A j \in JobIds : wpc[j] = "done" /\ exc[j] # None =>
        /\ jobObj[j].status = "failed"
        /\ jobObj[j].error = exc[j]
        /\ jobObj[j].finished_at # NoTime
        /\ jobObj[j].finished_at >= jobObj[j].started_at
        /\ jobObj[j].completed = progress[j].completed
        /\ jobObj[j].successful = progress[j].successful
        /\ jobObj[j].failed = progress[j].failed

\* browser.close() has raised after sessions had been counted, and the job
\* has ended
C22_Witness ==
    /\ wpc[1] = "done"
    /\ exc[1] = "close failed"
    /\ jobObj[1].status = "failed"
    /\ jobObj[1].successful >= 1
    /\ jobObj[1].failed >= 1

\* ----------------------------------------------------------------- C23
\* C23: a job is completed only if every one of its requested sessions ran
\* to an outcome: all its tasks were created, none was skipped for the stop
\* signal, and successful + failed = total.
C23_CompletedAllRan ==
    \A j \in JobIds : jobObj[j].status = "completed" =>
        /\ jobObj[j].successful + jobObj[j].failed = jobObj[j].total
        /\ Len(task[j]) = jobObj[j].total
        /\ \A k \in 1..Len(task[j]) : task[j][k] = "done"

\* a job has completed although a stop was acknowledged: the stop came after
\* the last session, and every session ran
C23_Witness ==
    /\ jobObj[1].status = "completed"
    /\ jobObj[1].stop_requested
    /\ stop_event[1]
    /\ jobObj[1].total >= 2

\* ----------------------------------------------------------------- C24
\* the state is the one a check_and_record call has just left
AfterCall == lastCall.ip \in IPs /\ lastCall.at = now

\* C24 as claimed: after every check_and_record(ip) call the stored hourly
\* list of ip has no timestamp older than 3600 seconds and the stored daily
\* list none older than 86400 seconds.
C24_PurgedOnEachCall ==
    AfterCall =>
        /\ \A i \in 1..Len(GetList(hourly, lastCall.ip)) :
                now - hourly[lastCall.ip][i] <= HOUR_SECONDS
        /\ \A i \in 1..Len(GetList(daily, lastCall.ip)) :
                now - daily[lastCall.ip][i] <= DAY_SECONDS

\* C24 as amended: a call purges the stored lists only when the full cleanup
\* is due, and then for every ip; after a call the stored timestamps of ip
\* are less than 3600 + 60 (hourly) and 86400 + 60 (daily) seconds old, and
\* less than 3600 and 86400 seconds old when the call ran the full cleanup.
C24_PurgedByCleanup ==
    AfterCall =>
        LET slack == IF last_cleanup = now THEN 0 ELSE CLEANUP_INTERVAL
        IN  /\ \A i \in 1..Len(GetList(hourly, lastCall.ip)) :
                    hourly[lastCall.ip][i] > now - HOUR_SECONDS - slack
            /\ \A i \in 1..Len(GetList(daily, lastCall.ip)) :
                    daily[lastCall.ip][i] > now - DAY_SECONDS - slack

\* a call has just been allowed and the stored hourly list of its ip still
\* holds a timestamp that is more than an hour old
C24_Witness ==
    /\ AfterCall
    /\ lastCall.allowed
    /\ \E i \in 1..Len(GetList(hourly, lastCall.ip)) :
            now - hourly[lastCall.ip][i] > HOUR_SECONDS

\* ----------------------------------------------------------------- C25
\* C25: with the calls of several threads interleaved, no ip is allowed more
\* than 3 calls in an hour or 10 in a day, and once the calls have returned
\* the stored lists hold one timestamp for every call allowed in the last
\* hour and in the last day.
C25_ThreadCaps ==
    \A ip \in IPs :
        /\ \A k \in 1..Len(allowedLog[ip]) :
                /\ AllowedIn(ip, allowedLog[ip][k], 3600) <= 3
                /\ AllowedIn(ip, allowedLog[ip][k], 86400) <= 10
        /\ Outside =>
                /\ Len(Recent(GetList(hourly, ip), now - HOUR_SECONDS))
                        = AllowedIn(ip, now, HOUR_SECONDS)
                /\ Len(Recent(GetList(daily, ip), now - DAY_SECONDS))
                        = AllowedIn(ip, now, DAY_SECONDS)

\* ----------------------------------------------------------------- C26
\* the sessions of job j whose run_session has returned
Finished(j) == {k \in 1..Len(task[j]) : task[j][k] = "done"}

\* C26: in every order in which the sessions of a batch finish,
\* progress.completed is the number of sessions that have finished
\* run_session, it equals successful + failed, and it never exceeds total.
C26_NoLostUpdate ==
    \A j \in JobIds : jobObj[j] # NoJob =>
        /\ progress[j].completed = Cardinality(Finished(j))
        /\ progress[j].completed = progress[j].successful + progress[j].failed
        /\ progress[j].completed <= jobObj[j].total

\* two sessions that started later have finished, one with a success and one
\* with a failure, while the first session still runs
C26_Witness ==
    /\ Len(task[1]) >= 3
    /\ task[1][1] = "running"
    /\ progress[1].successful = 1
    /\ progress[1].failed = 1

\* ----------------------------------------------------------------- C27
\* C27: the stored session_count of every user of the pool is the number of
\* save_user_state calls made for that user.
C27_CountIsSaves ==
    \A i \in 1..Len(users) : users[i].session_count = saved[users[i].id]

\* ----------------------------------------------------------------- C28
\* the step is a load_storage_state call
LoadStep == arg'.fn = "load" /\ (arg' # arg \/ ret' # ret)

\* C28: the user ids of _users are the user ids of _storage_states after
\* every call, and load_storage_state finds a state exactly for the users
\* of the pool.
C28_StatesMirrorUsers ==
    /\ [](Ids(users) = storage_states)
    /\ [][LoadStep => ret'.found = (arg'.id \in Ids(users))]_vars

\* a user whose state had been saved is in the pool no longer, and
\* load_storage_state has just found no state for it
C28_Witness ==
    /\ arg.fn = "load"
    /\ ret.fn = "load"
    /\ ~ret.found
    /\ saved[arg.id] > 0
    /\ Len(users) = max_pool_size

\* ----------------------------------------------------------------- C29
\* the job has a terminal status and an end time, and its stop signal is
\* registered no longer
Resolved(j) ==
    /\ jobObj[j].status \in {"completed", "failed", "stopped"}
    /\ jobObj[j].finished_at # NoTime
    /\ j \notin job_stop_events

\* C29 as claimed: every submitted job is resolved in the end.
C29_EveryJobResolves ==
    \A j \in JobIds : jobObj[j] # NoJob ~> Resolved(j)

\* C29 as amended: every job that its thread finds in the job index is
\* resolved in the end; a job that was removed from the index before its
\* thread looked it up stays pending with no end time.
C29_FoundJobResolves ==
    /\ \A j \in JobIds : wpc[j] = "launch" ~> Resolved(j)
    /\ [](\A j \in JobIds : wpc[j] = "done" /\ ~Resolved(j) =>
            /\ jobObj[j].status = "pending"
            /\ jobObj[j].finished_at = NoTime
            /\ j \notin job_store)

\* a job has been resolved although the index had dropped it while it ran
C29_Witness ==
    /\ wpc[1] = "done"
    /\ Resolved(1)
    /\ 1 \notin job_store

\* ----------------------------------------------------------------- C30
\* a stop request has been acknowledged and the job is still pending
PendingStop(j) ==
    /\ jobObj[j] # NoJob
    /\ jobObj[j].status = "pending"
    /\ jobObj[j].stop_requested

\* no session of job j has been created, and none has been counted
NoSessionRan(j) ==
    /\ jobObj[j] # NoJob
    /\ task[j] = <<>>
    /\ progress[j] = NoProgress
    /\ jobObj[j].successful = 0
    /\ jobObj[j].failed = 0

\* C30 as claimed: after a stop request acknowledged while the job is
\* pending, the worker launches no session and the job ends stopped, with
\* successful = 0 and failed = 0.
C30_StoppedBeforeLaunch ==
    \A j \in JobIds :
        [](PendingStop(j) => [](/\ NoSessionRan(j)
                                /\ wpc[j] = "done" => jobObj[j].status = "stopped"))

\* C30 as amended: after a stop request acknowledged while the job is
\* pending, the worker launches no session and successful and failed stay 0;
\* the job ends stopped when run_batch returns, failed when the browser
\* engine raises, and pending when its thread no longer finds it in the index.
C30_NoSessionAfterStop ==
    \A j \in JobIds :
        [](PendingStop(j) =>
            [](/\ NoSessionRan(j)
               /\ wpc[j] = "done" =>
                    jobObj[j].status = IF exc[j] # None THEN "failed"
                                       ELSE IF jobObj[j].finished_at = NoTime THEN "pending"
                                       ELSE "stopped"))

\* a job has ended stopped, and none of its sessions was created
C30_Witness ==
    /\ wpc[1] = "done"
    /\ jobObj[1].status = "stopped"
    /\ jobObj[1].stop_requested
    /\ task[1] = <<>>
    /\ jobObj[1].successful = 0
    /\ jobObj[1].failed = 0

\* ------------------------------------------------------------------ C31
\* the step is a start request of session s that the gate did not let through
RejectedStartStep(s) ==
    /\ reqs' = reqs + 1
    /\ resp'.op = "start"
    /\ resp'.sid = s
    /\ resp'.stage # "pass"

\* C31: a start request that the gate rejects at any of its checks creates
\* nothing: the job index, the registered stop signals, the jobs and their
\* events are unchanged, the session's recorded job id is unchanged, and no
\* thread is started.
C31_RejectedCreatesNothing ==
    [][\A s \in Sessions : RejectedStartStep(s) =>
            /\ job_store' = job_store
            /\ job_stop_events' = job_stop_events
            /\ jobObj' = jobObj
            /\ stop_event' = stop_event
            /\ session'[s].simulator_job_id = session[s].simulator_job_id
            /\ wpc' = wpc]_vars

\* a start request has just been turned away at the last check of the gate,
\* with a job of the session in the index, and no second job exists
C31_Witness ==
    /\ resp.op = "start"
    /\ resp.stage = "error"
    /\ session[resp.sid].simulator_job_id \in job_store
    /\ Cardinality({j \in JobIds : jobObj[j] # NoJob}) = 1

\* ------------------------------------------------------------------ C32
\* the list of ip after the step is its list before the step, with or
\* without the entries that left the window w, and one entry 'now' at its end
OneRecorded(d, ip, w) ==
    LET old == GetList(d, ip)
        new == GetList(d', ip)
    IN  /\ Len(new) >= 1
        /\ Len(new) <= Len(old) + 1
        /\ new[Len(new)] = now
        /\ Recent(SubSeq(new, 1, Len(new) - 1), now - w) = Recent(old, now - w)

\* the list of ip after the step has no entry that it had not before
NoneRecorded(d, ip, w) ==
    LET old == GetList(d, ip)
        new == GetList(d', ip)
    IN  /\ Len(new) <= Len(old)
        /\ Recent(new, now - w) = Recent(old, now - w)

\* the step is a start request of session s
StartStep(s) ==
    /\ reqs' = reqs + 1
    /\ resp'.op = "start"
    /\ resp'.sid = s

\* C32: every start request that passes the rate-limit check records exactly
\* one timestamp for its ip in the hourly and in the daily list, whatever a
\* later check of the gate answers; a request that the rate limiter rejects
\* records no timestamp and leaves the session's CSRF token, challenge and
\* creation time as they were.
C32_RecordedOnce ==
    [][\A s \in Sessions : StartStep(s) =>
            \E ip \in ReqIPs :
                IF resp'.stage # "rate"
                THEN /\ OneRecorded(hourly, ip, HOUR_SECONDS)
                     /\ OneRecorded(daily, ip, DAY_SECONDS)
                     /\ Len(allowedLog'[ip]) = Len(allowedLog[ip]) + 1
                ELSE /\ NoneRecorded(hourly, ip, HOUR_SECONDS)
                     /\ NoneRecorded(daily, ip, DAY_SECONDS)
                     /\ allowedLog' = allowedLog
                     /\ session'[s].csrf_token = session[s].csrf_token
                     /\ session'[s].csrf_created = session[s].csrf_created
                     /\ session'[s].pow_challenge = session[s].pow_challenge
                     /\ session'[s].session_created = session[s].session_created]_vars

\* three start requests were recorded although the gate rejected each of them
\* at a later check, and the fourth has just been rejected by the rate
\* limiter, with the session's token and challenge still stored
C32_Witness ==
    /\ resp.op = "start"
    /\ resp.stage = "rate"
    /\ Len(GetList(hourly, "ip1")) = RATE_LIMIT_HOURLY
    /\ Len(GetList(daily, "ip1")) = RATE_LIMIT_HOURLY
    /\ \A j \in JobIds : jobObj[j] = NoJob
    /\ session[resp.sid].csrf_token = resp.tok
    /\ session[resp.sid].pow_challenge # NoChallenge

\* ------------------------------------------------------------------ C33
\* the stages behind the proof-of-work check at which a start request is
\* turned away; check_no_running_job turns a request away by raising
LateStages == {"session_age", "snippets", "duplicate", "error"}

\* the last request was a start request turned away behind the
\* proof-of-work check
LateRejected ==
    /\ resp.op = "start"
    /\ resp.stage \in LateStages

\* C33 as claimed: after a start request was rejected at the session-age,
\* business-precondition or duplicate-job stage, a retry with the same token
\* and no new challenge is rejected at the CSRF stage with 403.
C33_RetryIs403 ==
    LateRejected =>
        \A ip \in ReqIPs, sol \in Solutions, gtm \in Snippets :
            /\ GateStage(resp.sid, ip, resp.tok, sol, gtm) = "csrf"
            /\ GateCode(GateStage(resp.sid, ip, resp.tok, sol, gtm)) = 403

\* C33 as amended: such a request has consumed the session's CSRF token and
\* its challenge, and only GET /challenge gives the session a token again;
\* a retry with the same token is rejected with 429 when its ip has used up
\* the hourly or the daily limit, and at the CSRF stage with 403 otherwise.
C33_RetryRejected ==
    /\ [](LateRejected =>
            /\ session[resp.sid].csrf_token = None
            /\ session[resp.sid].pow_challenge = NoChallenge
            /\ \A ip \in ReqIPs, sol \in Solutions, gtm \in Snippets :
                    GateCode(GateStage(resp.sid, ip, resp.tok, sol, gtm)) =
                        IF \/ AllowedIn(ip, now, HOUR_SECONDS) >= RATE_LIMIT_HOURLY
                           \/ AllowedIn(ip, now, DAY_SECONDS) >= RATE_LIMIT_DAILY
                        THEN 429 ELSE 403)
    /\ [][\A s \in Sessions :
            session[s].csrf_token = None /\ session'[s].csrf_token # None =>
                resp'.op = "challenge" /\ resp'.sid = s]_vars

\* a start request with a valid token and solution has just been rejected
\* for its missing target configuration, and the retry with the same token,
\* a solution and a configuration would be answered 403
C33_Witness ==
    /\ resp.op = "start"
    /\ resp.stage = "snippets"
    /\ resp.tok \in Tokens
    /\ GateCode(GateStage(resp.sid, "ip1", resp.tok, "a", "gtm")) = 403

\* ------------------------------------------------------------------ C34
\* the jobs that are pending or running
ActiveJobs == {j \in JobIds : jobObj[j] # NoJob /\ jobObj[j].status \in {"pending", "running"}}

\* C34: at every moment at most one of the jobs that a session has submitted
\* is pending or running (every job of the specification is submitted by the
\* one session of Clients).
C34_OneActiveJob ==
    Cardinality(ActiveJobs) <= 1

\* ------------------------------------------------------------------ C35
\* the status and the end time of a job agree
EndTimeAgrees(job) ==
    IF job.status \in {"completed", "failed", "stopped"}
    THEN job.finished_at # NoTime
    ELSE job.finished_at = NoTime

\* C35: in every state that a status query can observe, that is for every job
\* of the index, a job that is completed, failed or stopped has finished_at
\* set, and a job that is pending or running has not.
C35_EndTimeWithStatus ==
    \A j \in job_store : EndTimeAgrees(jobObj[j])

\* ------------------------------------------------------------------ C36
\* the first hour of ip: the 3600 seconds from its first recorded request on
InFirstHour(ip, t) ==
    /\ Len(allowedLog[ip]) > 0
    /\ t - allowedLog[ip][1] < HOUR_SECONDS

\* the requests of ip that passed the rate limiter in its first hour
SlotsUsed(ip) ==
    Cardinality({k \in 1..Len(allowedLog[ip]) : InFirstHour(ip, allowedLog[ip][k])})

\* the jobs created in the first hour of ip
JobsCreated(ip) ==
    Cardinality({j \in JobIds : jobObj[j] # NoJob /\ InFirstHour(ip, jobObj[j].started_at)})

\* C36: for an ip used by one session that had not reached the session-age
\* check before, at most 2 jobs are created in the first 3600 seconds: at
\* most 3 requests pass the rate limiter, every job takes one of them, and
\* one more is taken by the first start request that passes the rate limit,
\* CSRF and proof-of-work checks, which is rejected as session too new and
\* creates no job.
C36_TwoJobsAtMost ==
    /\ [](\A ip \in ReqIPs :
            /\ SlotsUsed(ip) <= RATE_LIMIT_HOURLY
            /\ JobsCreated(ip) > 0 => JobsCreated(ip) + 1 <= SlotsUsed(ip)
            /\ JobsCreated(ip) <= 2)
    /\ [][\A s \in Clients :
            AgeCheckStep(s) /\ session[s].session_created = NoTime =>
                /\ resp'.stage = "session_age"
                /\ resp'.code = 400
                /\ jobObj' = jobObj
                /\ \E ip \in ReqIPs :
                        /\ Len(allowedLog'[ip]) = Len(allowedLog[ip]) + 1
                        /\ allowedLog'[ip][Len(allowedLog'[ip])] = now]_vars

\* in the first hour of the ip three requests have passed the rate limiter,
\* the first of them rejected as session too new, a job was created, and a
\* fourth request has just been rejected by the rate limiter
C36_Witness ==
    /\ resp.op = "start"
    /\ resp.stage = "rate"
    /\ InFirstHour("ip1", now)
    /\ SlotsUsed("ip1") = RATE_LIMIT_HOURLY
    /\ JobsCreated("ip1") >= 1
    /\ session["s1"].session_created = allowedLog["ip1"][1]

====
